---------------------------- MODULE Spec2Model ----------------------------
(***************************************************************************)
(* Forecasting core of the analytics dashboard: the least-squares fit and  *)
(* the forecast projector of src/src/pages/Predictions.tsx, the date       *)
(* series and the synthetic sales generator of the mock-data module        *)
(* (src/unnamed/part_004), the Predictions page state around them, the    *)
(* random helpers of the mock-data module, retryRequest of the API client  *)
(* (src/unnamed/part_005) and the useData hook (src/src/types/global.d.ts).*)
(*                                                                         *)
(* JavaScript numbers are modelled as exact rationals <<n, d>> (d > 0, in  *)
(* lowest terms); <<0, 0>> stands for a non-finite result (NaN, Infinity). *)
(* Math.round is floor(x + 1/2), as in ECMAScript.                         *)
(***************************************************************************)
EXTENDS Integers, Sequences, FiniteSets, TLC

VARIABLES
    fitPc,              \* linearRegression's caller: "idle", "ready", "returned"
    fitData,            \* the argument of the linearRegression call
    fitResult,          \* what the call returned
    fcPc,               \* generateForecast's caller: "idle", "ready", "returned"
    fcArgs,             \* the arguments of the generateForecast call
    fcResult,           \* what the call returned
    mounted,            \* Predictions page: the mount effect has run
    loadPending,        \* Predictions page: loadData awaits its timer
    isLoading,          \* Predictions page state
    historicalData,
    selectedModelId,
    forecastMonths,
    modelParams,
    salesPc,            \* generateSalesData: "idle", "ready", "mapping", "returned"
    salesArgs,          \* its arguments: startDate, days, interval
    salesBase,          \* the four base values drawn for the whole series
    salesDates,         \* the dates being mapped
    salesIndex,         \* how many dates have been mapped
    salesPoint,         \* the element of the result produced last
    dsPc,               \* generateDateSeries' caller: "idle", "ready", "returned"
    dsArgs,             \* its arguments: startDate, days, interval
    dsStartDate,        \* the caller's startDate object
    dsResult,           \* what the call returned
    rndPc,              \* caller of a random helper: "idle", "ready", "returned"
    rndCall,            \* the helper called, its arguments, and what Math.random() returns
    rndResult,          \* what the call returned
    retryPc,            \* retryRequest: "idle", "calling", "waiting", "resolved", "rejected"
    retryArgs,          \* its arguments maxRetries and initialDelay
    retries,            \* its local counter
    retryCalls,         \* the calls of requestFn made so far, with their outcomes
    retryDelays,        \* the delays waited so far
    retryResult,        \* how the returned promise settled
    udMounted,          \* useData: the component using the hook has mounted
    udOptions,          \* useData: the options it was given
    udData,             \* useData state: data
    udIsLoading,        \* useData state: isLoading
    udError,            \* useData state: error
    udLastFetchedAt,    \* useData state: lastFetchedAt
    udFetches,          \* the fetchData calls so far: who started each, its status,
                        \* what the request settled with and what the call resolved to
    udNow,              \* the clock read by new Date()
    udCallbacks,        \* the onSuccess and onError invocations so far
    dbValue,            \* useDebounce: the value handed to the hook
    dbDelay,            \* useDebounce: its delay, in clock ticks
    dbDebounced,        \* useDebounce state: debouncedValue
    dbTimers,           \* useDebounce: the pending timeouts, each with the value it
                        \* captured and the ticks left until it is due
    dbValueAge,         \* ticks since the value last changed, counted up to the delay
    dbChanges,          \* number of changes of the value so far
    dbPublications,     \* the setDebouncedValue calls so far
    thDelay,            \* useThrottle: its delay, in clock ticks
    thNow,              \* useThrottle: the clock read by Date.now()
    thLastRan,          \* useThrottle ref: lastRan
    thTimeout,          \* useThrottle ref: timeout, as the set of due times of the pending timeout (empty for null)
    thLastArgs,         \* useThrottle ref: lastArgs
    thCalls,            \* the calls of the throttled function so far
    thInvocations,      \* the invocations of the wrapped callback so far
    apiRequests,        \* API client: requests sent by callers so far
    apiFrames,          \* API client: the requests being handled, outermost first; the last one is in flight unless a settled refresh waits to be picked up
    apiChild,           \* how the refresh awaited by the last frame settled, "none" while it has not
    apiAuthToken,       \* localStorage auth_token
    apiRefreshToken,    \* localStorage refresh_token
    apiOutcome,         \* how the caller's promise settled, "pending" while it has not
    apiRefreshCalls,    \* posts to /auth/refresh so far
    apiReplays,         \* replays of a failed request so far
    apiAuthErrors,      \* handleAuthError calls so far
    txTransactions,     \* Transactions page state: transactions, as the set of their ids
    txIsLoading,        \* Transactions page state: isLoading
    txLoadPending,      \* loadData of the page is waiting for its timer
    txSearchQuery,      \* Transactions page state: searchQuery
    txCategoryFilter,   \* Transactions page state: categoryFilter
    txPage,             \* Transactions page state: page
    txRowsPerPage,      \* Transactions page state: rowsPerPage
    txOrderBy,          \* Transactions page state: orderBy
    txOrder,            \* Transactions page state: order
    txSelected,         \* Transactions page state: selected
    txMenuOpen,         \* Transactions page state: actionMenuAnchorEl is set
    txCurrent,          \* Transactions page state: currentTransaction, as a set (empty for null)
    txDeleteDialogOpen, \* Transactions page state: deleteDialogOpen
    txMenuRow,          \* the rows whose action menu was opened last
    txLastHandler,      \* the handler that ran last
    pureLog             \* completed calls of linearRegression and generateForecast by
                        \* the page's callers, in order: arguments, result, and the
                        \* argument objects as the call left them

fitVars == <<fitPc, fitData, fitResult>>
fcVars == <<fcPc, fcArgs, fcResult>>
pageVars == <<mounted, loadPending, isLoading, historicalData, selectedModelId,
              forecastMonths, modelParams>>
salesVars == <<salesPc, salesArgs, salesBase, salesDates, salesIndex, salesPoint>>
dateVars == <<dsPc, dsArgs, dsStartDate, dsResult>>
rndVars == <<rndPc, rndCall, rndResult>>
retryVars == <<retryPc, retryArgs, retries, retryCalls, retryDelays, retryResult>>
dataVars == <<udMounted, udOptions, udData, udIsLoading, udError, udLastFetchedAt,
              udFetches, udNow, udCallbacks>>
coreVars == <<fitVars, fcVars, pageVars, salesVars, dateVars, rndVars, pureLog, retryVars,
              dataVars>>
debVars == <<dbValue, dbDelay, dbDebounced, dbTimers, dbValueAge, dbChanges,
             dbPublications>>
thrVars == <<thDelay, thNow, thLastRan, thTimeout, thLastArgs, thCalls, thInvocations>>
apiVars == <<apiRequests, apiFrames, apiChild, apiAuthToken, apiRefreshToken, apiOutcome, apiRefreshCalls, apiReplays, apiAuthErrors>>
txVars == <<txTransactions, txIsLoading, txLoadPending, txSearchQuery, txCategoryFilter, txPage, txRowsPerPage, txOrderBy, txOrder, txSelected, txMenuOpen, txCurrent, txDeleteDialogOpen, txMenuRow, txLastHandler>>
uiVars == <<debVars, thrVars, apiVars, txVars>>
allButDebounce == <<coreVars, thrVars, apiVars, txVars>>
allButThrottle == <<coreVars, debVars, apiVars, txVars>>
allButApi == <<coreVars, debVars, thrVars, txVars>>
allButTransactions == <<coreVars, debVars, thrVars, apiVars>>
otherVars == <<dateVars, rndVars, pureLog, retryVars, dataVars, uiVars>>
vars == <<coreVars, uiVars>>

----------------------------------------------------------------------------
(* Bounds of the model *)

\* longest perfectly linear series handed to linearRegression (x = 0..9)
MaxSeriesLen == 10
\* longest series generateSalesData is asked for
MaxSalesPoints == 2
\* longest history of arbitrary shape
MaxLen == 3
\* largest number of forecast periods
MaxPeriods == 3
\* longest date series asked of generateDateSeries on its own
MaxDates == 4
\* largest integer handed to randomBetween
MaxRandomInt == 4
\* longest array handed to randomFromArray
MaxArrayLen == 3
\* number of calls followed when callers of the forecasting functions interleave
MaxCalls == 2
\* largest maxRetries handed to retryRequest
MaxRetries == 3
\* number of fetchData calls followed in useData
MaxFetches == 3

\* longest delay of useDebounce and useThrottle, in clock ticks
MaxDelay == 3
\* number of changes of the debounced value followed
MaxChanges == 3
\* number of calls of a throttled function followed
MaxThrottleCalls == 3
\* clock ticks followed after a throttled function is created
MaxElapsed == 6
\* posts to /auth/refresh followed while one request is handled
MaxRefreshCalls == 3
\* requests sent by callers of the API client
MaxApiRequests == 2
\* transactions that loadData of the Transactions page generates
MaxTransactions == 3

----------------------------------------------------------------------------
(* JavaScript number arithmetic, exact *)

Abs(x) == IF x < 0 THEN -x ELSE x

RECURSIVE Gcd(_, _)
Gcd(a, b) == IF b = 0 THEN a ELSE Gcd(b, a % b)

NaN == <<0, 0>>
IsFinite(r) == r[2] # 0

Norm(n, d) ==
    IF d = 0 THEN NaN
    ELSE LET g == Gcd(Abs(n), Abs(d))
             s == IF d < 0 THEN -1 ELSE 1
         IN  <<s * (n \div g), s * (d \div g)>>

RInt(i) == <<i, 1>>
Zero == RInt(0)
Frac(n, d) == Norm(n, d)

RAdd(a, b) ==
    IF ~IsFinite(a) \/ ~IsFinite(b) THEN NaN
    ELSE LET g == Gcd(a[2], b[2])
         IN  Norm(a[1] * (b[2] \div g) + b[1] * (a[2] \div g), (a[2] \div g) * b[2])

RNeg(a) == IF IsFinite(a) THEN <<-a[1], a[2]>> ELSE NaN
RSub(a, b) == RAdd(a, RNeg(b))

RMul(a, b) ==
    IF ~IsFinite(a) \/ ~IsFinite(b) THEN NaN
    ELSE LET x == Norm(a[1], b[2])
             y == Norm(b[1], a[2])
         IN  <<x[1] * y[1], x[2] * y[2]>>

RDiv(a, b) ==
    IF ~IsFinite(a) \/ ~IsFinite(b) \/ b[1] = 0 THEN NaN
    ELSE RMul(a, Norm(b[2], b[1]))

\* a < b on finite rationals, by continued fractions (no cross product)
RECURSIVE RLess(_, _)
RLess(a, b) ==
    LET qa == a[1] \div a[2]
        qb == b[1] \div b[2]
        ra == a[1] - qa * a[2]
        rb == b[1] - qb * b[2]
    IN  IF qa # qb THEN qa < qb
        ELSE IF rb = 0 THEN FALSE
        ELSE IF ra = 0 THEN TRUE
        ELSE RLess(<<b[2], rb>>, <<a[2], ra>>)

RLeq(a, b) == a = b \/ RLess(a, b)

RECURSIVE RPow(_, _)
RPow(a, k) == IF k = 0 THEN RInt(1) ELSE RMul(a, RPow(a, k - 1))

\* Math.round: the nearest integer, halves towards +Infinity
MathRound(r) ==
    LET q == r[1] \div r[2]
        rest == r[1] - q * r[2]
    IN  IF rest >= r[2] - rest THEN q + 1 ELSE q

RECURSIVE SumSeq(_)
SumSeq(s) == IF s = <<>> THEN 0 ELSE s[1] + SumSeq(Tail(s))

RECURSIVE SeqsUpTo(_, _)
SeqsUpTo(S, n) ==
    IF n = 0 THEN {<<>>}
    ELSE LET shorter == SeqsUpTo(S, n - 1)
         IN  shorter \cup {Append(s, x) : s \in shorter, x \in S}

----------------------------------------------------------------------------
(* Calendar: a Date is [year, month (0..11), date (1..31)] in local time *)

IsLeapYear(y) == (y % 4 = 0 /\ y % 100 # 0) \/ y % 400 = 0

DaysInMonth(y, m) ==
    IF m = 1 THEN (IF IsLeapYear(y) THEN 29 ELSE 28)
    ELSE IF m \in {3, 5, 8, 10} THEN 30
    ELSE 31

\* ECMAScript MakeDay: months carry into years, days carry into months
RECURSIVE MakeDate(_, _, _)
MakeDate(y, m, d) ==
    IF m > 11 THEN MakeDate(y + 1, m - 12, d)
    ELSE IF m < 0 THEN MakeDate(y - 1, m + 12, d)
    ELSE IF d > DaysInMonth(y, m) THEN MakeDate(y, m + 1, d - DaysInMonth(y, m))
    ELSE IF d < 1 THEN
        (IF m = 0 THEN MakeDate(y - 1, 11, d + 31)
         ELSE MakeDate(y, m - 1, d + DaysInMonth(y, m - 1)))
    ELSE [year |-> y, month |-> m, date |-> d]

\* Date.prototype.setMonth / setDate on a copy
setMonth(date, m) == MakeDate(date.year, m, date.date)
setDate(date, d) == MakeDate(date.year, date.month, d)

\* date-fns addMonths: the day of the month is kept, clamped to the
\* last day of the target month
addMonths(date, amount) ==
    LET endOfDesiredMonth == MakeDate(date.year, date.month + amount + 1, 0)
        daysInMonth == endOfDesiredMonth.date
    IN  IF date.date >= daysInMonth THEN endOfDesiredMonth
        ELSE MakeDate(endOfDesiredMonth.year, endOfDesiredMonth.month, date.date)

\* date-fns subMonths
subMonths(date, amount) == addMonths(date, -amount)

\* date-fns format(date, 'yyyy-MM-dd') and parseISO of such a string; the
\* string is modelled by its three fields, MM running 1..12
format(date) == [yyyy |-> date.year, MM |-> date.month + 1, dd |-> date.date]
parseISO(str) == [year |-> str.yyyy, month |-> str.MM - 1, date |-> str.dd]

\* format(date, 'MMM yyyy')
formatMonthYear(date) == [MMM |-> date.month + 1, yyyy |-> date.year]

\* months since year 0, for comparing calendar months
MonthNumber(date) == date.year * 12 + date.month

DateLess(a, b) ==
    \/ a.year < b.year
    \/ a.year = b.year /\ a.month < b.month
    \/ a.year = b.year /\ a.month = b.month /\ a.date < b.date

----------------------------------------------------------------------------
(* linearRegression, Predictions.tsx *)

\* an array argument; present = FALSE is a null or undefined argument
Given(items) == [present |-> TRUE, items |-> items]
Missing == [present |-> FALSE, items |-> <<>>]

\* one SalesData record of the history
SalesData(date, revenue) ==
    [date |-> format(date),
     formattedDate |-> formatMonthYear(date),
     revenue |-> revenue,
     transactions |-> MathRound(Frac(revenue, 120)),
     actual |-> TRUE]

\* mutant: x counted from 1
XOfOneBased(index) == index + 1
\* const x = index, the index being 0-based
XOf(index) == index

SlopeOf(n, sumX, sumY, sumXY, sumXX) ==
    LET denominator == n * sumXX - sumX * sumX
    IN  IF denominator # 0
        THEN RDiv(RInt(n * sumXY - sumX * sumY), RInt(denominator))
        ELSE Zero

\* mutant: the intercept is guarded by the slope's denominator
InterceptOfDegenerateZero(n, sumX, sumY, sumXX, slope) ==
    IF n * sumXX - sumX * sumX # 0
    THEN RDiv(RSub(RInt(sumY), RMul(slope, RInt(sumX))), RInt(n))
    ELSE Zero
InterceptOf(n, sumX, sumY, sumXX, slope) ==
    IF n # 0
    THEN RDiv(RSub(RInt(sumY), RMul(slope, RInt(sumX))), RInt(n))
    ELSE Zero

\* the sums of the forEach loop and the two quotients; divisions counts the
\* divisions the call performed
RegressionOf(items) ==
    LET n == Len(items)
        sumX == SumSeq([i \in 1..n |-> XOf(i - 1)])
        sumY == SumSeq([i \in 1..n |-> items[i].revenue])
        sumXY == SumSeq([i \in 1..n |-> XOf(i - 1) * items[i].revenue])
        sumXX == SumSeq([i \in 1..n |-> XOf(i - 1) * XOf(i - 1)])
        slope == SlopeOf(n, sumX, sumY, sumXY, sumXX)
    IN  [slope |-> slope,
         intercept |-> InterceptOf(n, sumX, sumY, sumXX, slope),
         divisions |-> (IF n * sumXX - sumX * sumX # 0 THEN 1 ELSE 0)
                       + (IF n # 0 THEN 1 ELSE 0)]

\* mutant: no early return on an empty or missing array, and unguarded quotients
linearRegressionUnguarded(data) ==
    IF Len(data.items) = 0
    THEN [slope |-> NaN, intercept |-> NaN, divisions |-> 2]
    ELSE RegressionOf(data.items)
linearRegression(data) ==
    IF ~data.present \/ Len(data.items) = 0
    THEN [slope |-> Zero, intercept |-> Zero, divisions |-> 0]
    ELSE RegressionOf(data.items)

----------------------------------------------------------------------------
(* generateDateSeries, mock-data module *)

\* one pass of the loop body's switch: the next value of currentDate
Advance(currentDate, interval) ==
    CASE interval = "day" -> setDate(currentDate, currentDate.date + 1)
      [] interval = "week" -> setDate(currentDate, currentDate.date + 7)
      [] interval = "month" -> setMonth(currentDate, currentDate.month + 1)
      [] OTHER -> currentDate

\* mutant: the date is pushed after the advance instead of before it
RECURSIVE DateLoopAdvanceFirst(_, _, _, _, _)
DateLoopAdvanceFirst(dates, currentDate, i, days, interval) ==
    IF i < days
    THEN DateLoopAdvanceFirst(Append(dates, Advance(currentDate, interval)),
                              Advance(currentDate, interval), i + 1, days, interval)
    ELSE dates

RECURSIVE DateLoop(_, _, _, _, _)
DateLoop(dates, currentDate, i, days, interval) ==
    IF i < days
    THEN DateLoop(Append(dates, currentDate), Advance(currentDate, interval),
                  i + 1, days, interval)
    ELSE dates

generateDateSeries(startDate, days, interval) ==
    DateLoop(<<>>, startDate, 0, days, interval)

----------------------------------------------------------------------------
(* generateForecast, Predictions.tsx *)

ModelIds == {"linear", "exponential", "seasonal"}

\* params.<id>: a missing key reads as undefined, NaN in arithmetic
Param(params, id) == IF id \in DOMAIN params THEN params[id] ELSE NaN

\* Math.round of a number that may be NaN
RRound(r) == IF IsFinite(r) THEN RInt(MathRound(r)) ELSE NaN

\* mutant: the naive month step of Date.setMonth, which overflows into the
\* following month when the day does not exist
ForecastDateBySetMonth(lastDate, i) == setMonth(lastDate, lastDate.month + i)
\* the date of the i-th forecast point
ForecastDate(lastDate, i) == addMonths(lastDate, i)

\* the model-specific adjustment of the regression's base value
Adjusted(base, modelId, months, params, monthIndex, i) ==
    CASE modelId = "linear" ->
            LET seasonal ==
                    IF monthIndex >= 9
                    THEN RMul(base, RMul(Param(params, "seasonality"), Frac(13, 10)))
                    ELSE IF monthIndex <= 2
                    THEN RMul(base, RMul(Param(params, "seasonality"), Frac(85, 100)))
                    ELSE IF monthIndex >= 6 /\ monthIndex <= 8
                    THEN RMul(base, RMul(Param(params, "seasonality"), Frac(11, 10)))
                    ELSE base
            IN  RMul(seasonal, Param(params, "growth"))
      [] modelId = "exponential" ->
            LET grown == RMul(base, RPow(RAdd(RInt(1), Param(params, "growthRate")), i))
                ratio == Frac(i, months * 2)
                saturationEffect ==
                    RSub(RInt(1), RMul(RMul(ratio, ratio),
                                       RSub(RInt(1), Param(params, "saturation"))))
            IN  RMul(grown, saturationEffect)
      [] modelId = "seasonal" ->
            IF monthIndex >= 0 /\ monthIndex <= 2
            THEN RMul(base, Param(params, "q1Factor"))
            ELSE IF monthIndex >= 9
            THEN RMul(base, Param(params, "q4Factor"))
            ELSE base
      [] OTHER -> base

\* predictedRevenue of the i-th pass of the loop, before rounding
PredictedRevenue(history, modelId, months, params, i) ==
    LET lastDate == parseISO(history[Len(history)].date)
        fit == linearRegression(Given(history))
        monthIndex == ForecastDate(lastDate, i).month
        x == Len(history) - 1 + i
        base == RAdd(fit.intercept, RMul(fit.slope, RInt(x)))
    IN  Adjusted(base, modelId, months, params, monthIndex, i)

\* mutant: the sign of the offset term is flipped
VariabilityShrinking(predictedRevenue, i) ==
    RMul(predictedRevenue, RSub(Frac(5, 100), RMul(RInt(i), Frac(1, 100))))
\* variability of the i-th pass, before rounding
Variability(predictedRevenue, i) ==
    RMul(predictedRevenue, RAdd(Frac(5, 100), RMul(RInt(i), Frac(1, 100))))

\* the record pushed by the i-th pass of the loop
ForecastPoint(history, modelId, months, params, i) ==
    LET lastDate == parseISO(history[Len(history)].date)
        forecastDate == ForecastDate(lastDate, i)
        predictedRevenue == PredictedRevenue(history, modelId, months, params, i)
        variability == Variability(predictedRevenue, i)
    IN  [date |-> format(forecastDate),
         formattedDate |-> formatMonthYear(forecastDate),
         revenue |-> RRound(predictedRevenue),
         transactions |-> RRound(RDiv(predictedRevenue, RInt(120))),
         lower95 |-> RRound(RSub(predictedRevenue, variability)),
         upper95 |-> RRound(RAdd(predictedRevenue, variability)),
         actual |-> FALSE,
         model |-> modelId]

\* mutant: the loop stops one pass early
ForecastLoopShort(history, modelId, months, params) ==
    [i \in 1..(months - 1) |-> ForecastPoint(history, modelId, months, params, i)]
\* for (let i = 1; i <= months; i++)
ForecastLoop(history, modelId, months, params) ==
    [i \in 1..months |-> ForecastPoint(history, modelId, months, params, i)]

\* mutant: no early return; the last element of an empty history is read
generateForecastUnguarded(history, modelId, months, params) ==
    [error |-> IF Len(history) = 0 THEN "TypeError" ELSE "none",
     forecast |-> IF Len(history) = 0 THEN <<>>
                  ELSE ForecastLoop(history, modelId, months, params)]
\* the call's outcome: error is "none" when it returned normally
\* mutant: the projector keeps a count of the calls made so far and projects
\* that many periods fewer
generateForecastCounting(history, modelId, months, params) ==
    IF Len(history) = 0 THEN [error |-> "none", forecast |-> <<>>]
    ELSE [error |-> "none",
          forecast |-> ForecastLoop(history, modelId, months - Len(pureLog), params)]

generateForecast(history, modelId, months, params) ==
    IF Len(history) = 0
    THEN [error |-> "none", forecast |-> <<>>]
    ELSE [error |-> "none",
          forecast |-> ForecastLoop(history, modelId, months, params)]

----------------------------------------------------------------------------
(* Callers of linearRegression *)

Slopes == -3..3
Intercepts == 0..7
RevenueValues == {0, 1, 4, 9}
FitDate == [year |-> 2024, month |-> 0, date |-> 1]

\* a monthly history with the given revenues
SeriesOf(ys) == [i \in 1..Len(ys) |-> SalesData(addMonths(FitDate, i - 1), ys[i])]

\* the perfectly linear series y = a*x + b, x = 0..n-1
LinearSeries(a, b, n) == [i \in 1..n |-> a * (i - 1) + b]

NoFit == [slope |-> Zero, intercept |-> Zero, divisions |-> 0]

RestFit ==
    /\ fitPc = "idle"
    /\ fitData = Missing
    /\ fitResult = NoFit

InitFit ==
    /\ fitPc = "ready"
    /\ \/ fitData = Missing
       \/ \E a \in Slopes, b \in Intercepts, n \in 0..MaxSeriesLen :
            fitData = Given(SeriesOf(LinearSeries(a, b, n)))
       \/ \E ys \in SeqsUpTo(RevenueValues, MaxLen) :
            fitData = Given(SeriesOf(ys))
    /\ fitResult = NoFit

\* the caller runs linearRegression on its argument
Fit ==
    /\ fitPc = "ready"
    /\ fitPc' = "returned"
    /\ fitResult' = linearRegression(fitData)
    /\ UNCHANGED <<fitData, fcVars, pageVars, salesVars, otherVars>>

NextFit == Fit

----------------------------------------------------------------------------
(* Callers of generateForecast *)

\* the day the history is generated on: its last month is the one before
Todays ==
    {[year |-> 2026, month |-> 0, date |-> 1],
     [year |-> 2025, month |-> 0, date |-> 31],
     [year |-> 2024, month |-> 11, date |-> 31],
     [year |-> 2024, month |-> 4, date |-> 15]}

HistoryRevenues == {100, 400, 900}

\* a history of Len(ys) months ending the month before today, as
\* generateHistoricalData dates it, with the given revenues
History(today, ys) ==
    [i \in 1..Len(ys) |-> SalesData(subMonths(today, Len(ys) + 1 - i), ys[i])]

UnknownModelId == "arima"

\* parameter mappings within the ranges predictionModels declares
ParamChoices(modelId) ==
    CASE modelId = "linear" ->
            {[seasonality |-> se, growth |-> g] :
                se \in {Frac(1, 2), RInt(1), Frac(3, 2)}, g \in {Frac(4, 5), Frac(6, 5)}}
      [] modelId = "exponential" ->
            {[growthRate |-> Frac(1, 5), saturation |-> sa] :
                sa \in {Frac(1, 2), Frac(4, 5), RInt(1)}}
      [] modelId = "seasonal" ->
            {[q1Factor |-> Frac(7, 10), q4Factor |-> Frac(3, 2)],
             [q1Factor |-> Frac(17, 20), q4Factor |-> Frac(13, 10)]}
      [] OTHER -> {[growth |-> RInt(1)]}

InRange(modelId, params) == modelId \in ModelIds /\ params \in ParamChoices(modelId)

\* mappings that lack the keys the model reads
ForeignParams(modelId) ==
    IF modelId = "linear" THEN {[q1Factor |-> Frac(17, 20), q4Factor |-> Frac(13, 10)]}
    ELSE {}

NoForecast == [error |-> "none", forecast |-> <<>>]

RestForecast ==
    /\ fcPc = "idle"
    /\ fcArgs = [history |-> <<>>, modelId |-> "linear", months |-> 0,
                 params |-> [growth |-> RInt(1)]]
    /\ fcResult = NoForecast

InitForecast ==
    /\ fcPc = "ready"
    /\ \E m \in ModelIds \cup {UnknownModelId}, today \in Todays,
          ys \in SeqsUpTo(HistoryRevenues, MaxLen), k \in 0..MaxPeriods :
            \E p \in ParamChoices(m) \cup ForeignParams(m) :
                fcArgs = [history |-> History(today, ys), modelId |-> m,
                          months |-> k, params |-> p]
    /\ fcResult = NoForecast

\* the caller runs generateForecast on its arguments
Project ==
    /\ fcPc = "ready"
    /\ fcPc' = "returned"
    /\ fcResult' = generateForecast(fcArgs.history, fcArgs.modelId, fcArgs.months,
                                    fcArgs.params)
    /\ UNCHANGED <<fcArgs, fitVars, pageVars, salesVars, otherVars>>

NextForecast == Project

----------------------------------------------------------------------------
(* generateForecastData, mock-data module *)

\* dateToString, read in the runtime's own time zone taken to be UTC
dateToString(date) == format(date)

\* the early return and the dates of the forecast days; the revenue of each
\* day is a product of random factors and is left out
generateForecastData(history, forecastDays) ==
    IF Len(history) = 0 THEN <<>>
    ELSE LET lastDate == parseISO(history[Len(history)].date)
             startDate == setDate(lastDate, lastDate.date + 1)
             forecastDates == generateDateSeries(startDate, forecastDays, "day")
         IN  [i \in 1..Len(forecastDates) |-> [date |-> dateToString(forecastDates[i])]]

----------------------------------------------------------------------------
(* The Predictions page *)

\* predictionModels[*].accuracy
Accuracy(modelId) ==
    CASE modelId = "linear" -> Frac(85, 100)
      [] modelId = "exponential" -> Frac(78, 100)
      [] modelId = "seasonal" -> Frac(91, 100)

\* the useState initial value of modelParams
DefaultParams ==
    [linear |-> [seasonality |-> RInt(1), growth |-> RInt(1)],
     exponential |-> [growthRate |-> Frac(1, 20), saturation |-> Frac(4, 5)],
     seasonal |-> [q1Factor |-> Frac(85, 100), q4Factor |-> Frac(13, 10)]]

\* the values a parameter slider is moved to: the declared maximum
SliderMax(paramId) ==
    CASE paramId = "seasonality" -> Frac(3, 2)
      [] paramId = "growth" -> Frac(6, 5)
      [] paramId = "growthRate" -> Frac(1, 5)
      [] paramId = "saturation" -> RInt(1)
      [] paramId = "q1Factor" -> RInt(1)
      [] paramId = "q4Factor" -> Frac(3, 2)

PageToday == [year |-> 2026, month |-> 0, date |-> 1]

\* histories generateHistoricalData may produce, MaxLen months standing for
\* its 24: rising, flat and falling revenues
LoadedHistories ==
    {History(PageToday, LinearSeries(a, 400, MaxLen)) : a \in {-100, 0, 100}}

RestPage ==
    /\ mounted = FALSE
    /\ loadPending = FALSE
    /\ isLoading = FALSE
    /\ historicalData = <<>>
    /\ selectedModelId = "linear"
    /\ forecastMonths = MaxPeriods
    /\ modelParams = DefaultParams

\* the first render: the useState initial values (forecastMonths, 12 in the
\* source, is MaxPeriods here)
InitPage == RestPage

\* useEffect: loadData starts, setIsLoading(true), and awaits its timer
Mount ==
    /\ ~mounted
    /\ mounted' = TRUE
    /\ isLoading' = TRUE
    /\ loadPending' = TRUE
    /\ UNCHANGED <<historicalData, selectedModelId, forecastMonths, modelParams,
                   fitVars, fcVars, salesVars, otherVars>>

\* the timer fires: setHistoricalData(generateHistoricalData()), then the
\* finally block's setIsLoading(false)
LoadDataResolve ==
    /\ loadPending
    /\ loadPending' = FALSE
    /\ historicalData' \in LoadedHistories
    /\ isLoading' = FALSE
    /\ UNCHANGED <<mounted, selectedModelId, forecastMonths, modelParams,
                   fitVars, fcVars, salesVars, otherVars>>

\* the Refresh Data button, enabled while not loading
RefreshClick ==
    /\ mounted
    /\ ~isLoading
    /\ isLoading' = TRUE
    /\ UNCHANGED <<mounted, loadPending, historicalData, selectedModelId,
                   forecastMonths, modelParams, fitVars, fcVars, salesVars, otherVars>>

handleModelChange ==
    \E m \in ModelIds :
        /\ mounted
        /\ selectedModelId' = m
        /\ UNCHANGED <<mounted, loadPending, isLoading, historicalData,
                       forecastMonths, modelParams, fitVars, fcVars, salesVars, otherVars>>

\* the period slider
handleMonthsChange ==
    \E k \in 1..MaxPeriods :
        /\ mounted
        /\ forecastMonths' = k
        /\ UNCHANGED <<mounted, loadPending, isLoading, historicalData,
                       selectedModelId, modelParams, fitVars, fcVars, salesVars, otherVars>>

\* a parameter slider of the selected model
handleParamChange ==
    \E paramId \in DOMAIN modelParams[selectedModelId] :
        \E value \in {DefaultParams[selectedModelId][paramId], SliderMax(paramId)} :
            /\ mounted
            /\ modelParams' = [modelParams EXCEPT ![selectedModelId][paramId] = value]
            /\ UNCHANGED <<mounted, loadPending, isLoading, historicalData,
                           selectedModelId, forecastMonths, fitVars, fcVars, salesVars, otherVars>>

NextPage ==
    \/ Mount
    \/ LoadDataResolve
    \/ RefreshClick
    \/ handleModelChange
    \/ handleMonthsChange
    \/ handleParamChange

\* useMemo: forecast
forecast ==
    IF Len(historicalData) = 0 THEN <<>>
    ELSE generateForecast(historicalData, selectedModelId, forecastMonths,
                          modelParams[selectedModelId]).forecast

\* useMemo: comparativeForecasts, a mapping from model id to forecast
comparativeForecasts ==
    IF Len(historicalData) = 0 THEN [m \in {} |-> <<>>]
    ELSE [m \in ModelIds |->
            generateForecast(historicalData, m, forecastMonths, modelParams[m]).forecast]

RECURSIVE SumRevenue(_)
SumRevenue(points) ==
    IF points = <<>> THEN Zero
    ELSE RAdd(points[1].revenue, SumRevenue(Tail(points)))

\* useMemo: metrics. growthRate is Math.pow(ratio, 1 / months) - 1 scaled by
\* 1200 and is kept as its two arguments; divisions and historyReads count
\* the divisions performed and the elements of historicalData read
metrics ==
    IF Len(forecast) = 0
    THEN [totalRevenue |-> Zero, averageMonthlyRevenue |-> Zero,
          growthRate |-> Zero, confidenceLevel |-> Zero,
          divisions |-> 0, historyReads |-> 0]
    ELSE LET totalRevenue == SumRevenue(forecast)
             lastHistorical == historicalData[Len(historicalData)]
             lastForecast == forecast[Len(forecast)]
         IN  [totalRevenue |-> totalRevenue,
              averageMonthlyRevenue |-> RDiv(totalRevenue, RInt(Len(forecast))),
              growthRate |-> [ratio |-> RDiv(lastForecast.revenue,
                                             RInt(lastHistorical.revenue)),
                              months |-> Len(forecast)],
              confidenceLevel |->
                  RMul(RMul(Accuracy(selectedModelId),
                            RSub(RInt(1), Frac(Len(forecast), 36))), RInt(100)),
              divisions |-> 6,
              historyReads |-> 2]

----------------------------------------------------------------------------
(* generateSalesData, mock-data module *)

Floor(r) == r[1] \div r[2]

\* Number.prototype.toFixed(decimals = 2) read back by parseFloat
ToFixed2(value) == Frac(MathRound(RMul(value, RInt(100))), 100)

\* rnd is the value Math.random() returned, 0 <= rnd < 1
randomBetween(min, max, rnd) ==
    Floor(RAdd(RMul(rnd, RInt(max - min + 1)), RInt(min)))

randomFloat(min, max, rnd) == ToFixed2(RAdd(RMul(rnd, RSub(max, min)), min))

\* Date.prototype.getDay: 0 is Sunday, 6 is Saturday
getDay(date) ==
    LET t == <<0, 3, 2, 5, 0, 3, 5, 1, 4, 6, 2, 4>>
        y == IF date.month < 2 THEN date.year - 1 ELSE date.year
    IN  (y + (y \div 4) - (y \div 100) + (y \div 400) + t[date.month + 1] + date.date) % 7

getSeasonalFactor(date, rnd) ==
    IF date.month >= 9 /\ date.month <= 11 THEN randomFloat(Frac(12, 10), Frac(15, 10), rnd)
    ELSE IF date.month >= 0 /\ date.month <= 2 THEN randomFloat(Frac(7, 10), Frac(9, 10), rnd)
    ELSE randomFloat(Frac(9, 10), Frac(11, 10), rnd)

getWeekdayFactor(date, rnd) ==
    IF getDay(date) = 0 \/ getDay(date) = 6
    THEN randomFloat(Frac(7, 10), Frac(13, 10), rnd)
    ELSE randomFloat(Frac(9, 10), Frac(11, 10), rnd)

RECURSIVE IntPow(_, _)
IntPow(b, k) == IF k = 0 THEN 1 ELSE b * IntPow(b, k - 1)

\* (1 + annualGrowthRate)^(index / total): exactly 1 at index 0, otherwise
\* the power truncated to two decimals
getTrendFactor(index, total, rnd) ==
    LET annualGrowthRate == randomFloat(Frac(5, 100), Frac(15, 100), rnd)
        top == Floor(RMul(RAdd(RInt(1), annualGrowthRate), RInt(100)))
        fits(h) == IntPow(h, total) <= IntPow(top, index) * IntPow(100, total - index)
    IN  IF index = 0 THEN RInt(1)
        ELSE Frac(CHOOSE h \in 100..116 : fits(h) /\ ~fits(h + 1), 100)

\* const profit = revenue - costs
ProfitOf(revenue, costs) == RSub(revenue, costs)

\* the record the map callback returns for one date; draws are the seven
\* values Math.random() returns in it, in call order
SalesDataPoint(base, date, index, total, draws) ==
    LET seasonalFactor == getSeasonalFactor(date, draws[1])
        weekdayFactor == getWeekdayFactor(date, draws[2])
        trendFactor == getTrendFactor(index, total, draws[3])
        variabilityFactor == randomFloat(Frac(9, 10), Frac(11, 10), draws[4])
        revenue == RMul(RMul(RMul(RMul(RInt(base.baseRevenue), seasonalFactor),
                                  weekdayFactor), trendFactor), variabilityFactor)
        costFactor == randomFloat(Frac(9, 10), Frac(11, 10), draws[5])
        costs == RMul(RMul(RMul(base.baseCosts, seasonalFactor), trendFactor), costFactor)
        profit == ProfitOf(revenue, costs)
        transactionFactor == randomFloat(Frac(9, 10), Frac(11, 10), draws[6])
        transactions ==
            MathRound(RMul(RMul(RMul(RMul(RInt(base.baseTransactions), seasonalFactor),
                                     weekdayFactor), trendFactor), transactionFactor))
        marketingFactor ==
            IF RLess(RInt(1), seasonalFactor)
            THEN randomFloat(Frac(11, 10), Frac(13, 10), draws[7])
            ELSE randomFloat(Frac(9, 10), Frac(11, 10), draws[7])
        marketingSpend ==
            RMul(RMul(RMul(base.baseMarketingSpend, seasonalFactor), trendFactor),
                 marketingFactor)
    IN  [date |-> dateToString(date),
         revenue |-> MathRound(revenue),
         profit |-> MathRound(profit),
         costs |-> MathRound(costs),
         transactions |-> transactions,
         marketingSpend |-> MathRound(marketingSpend)]

\* the values Math.random() returns in the model: one near each end of [0, 1)
RandomDraws == {Frac(1, 10), Frac(9, 10)}

\* a Friday and the Saturday after it
SalesStart == [year |-> 2024, month |-> 8, date |-> 27]
SalesWeekendStart == [year |-> 2024, month |-> 8, date |-> 28]
SalesStarts == {SalesStart, SalesWeekendStart}
Intervals == {"day", "week", "month"}

NoBase == [baseRevenue |-> 0, baseCosts |-> Zero, baseTransactions |-> 0,
           baseMarketingSpend |-> Zero]
NoPoint == [date |-> dateToString(SalesStart), revenue |-> 0, profit |-> 0, costs |-> 0,
            transactions |-> 0, marketingSpend |-> 0]

RestSales ==
    /\ salesPc = "idle"
    /\ salesArgs = [startDate |-> SalesStart, days |-> 0, interval |-> "day"]
    /\ salesBase = NoBase
    /\ salesDates = <<>>
    /\ salesIndex = 0
    /\ salesPoint = NoPoint

\* the call's arguments, and the index of the element of the returned array
\* that is followed: the map callback treats every element alike, each with
\* its own random draws
InitSales ==
    /\ salesPc = "ready"
    /\ \E startDate \in SalesStarts, days \in 0..MaxSalesPoints, interval \in Intervals :
        /\ salesArgs = [startDate |-> startDate, days |-> days, interval |-> interval]
        /\ salesIndex \in 0..(IF days = 0 THEN 0 ELSE days - 1)
    /\ salesBase = NoBase
    /\ salesDates = <<>>
    /\ salesPoint = NoPoint

\* the head of generateSalesData: the dates and the four base values
SalesBegin ==
    /\ salesPc = "ready"
    /\ salesPc' = "mapping"
    /\ salesDates' = generateDateSeries(salesArgs.startDate, salesArgs.days,
                                        salesArgs.interval)
    /\ \E r1 \in RandomDraws, r2 \in RandomDraws, r3 \in RandomDraws, r4 \in RandomDraws :
        LET baseRevenue == randomBetween(10000, 50000, r1)
        IN  salesBase' =
                [baseRevenue |-> baseRevenue,
                 baseCosts |-> RMul(RInt(baseRevenue),
                                    randomFloat(Frac(4, 10), Frac(7, 10), r2)),
                 baseTransactions |-> randomBetween(100, 500, r3),
                 baseMarketingSpend |-> RMul(RInt(baseRevenue),
                                             randomFloat(Frac(5, 100), Frac(15, 100), r4))]
    /\ UNCHANGED <<salesArgs, salesIndex, salesPoint, fitVars, fcVars, pageVars, otherVars>>

\* the map callback on the followed element, and the return of the array
SalesMapPoint ==
    /\ salesPc = "mapping"
    /\ salesIndex < Len(salesDates)
    /\ \E draws \in [1..7 -> RandomDraws] :
        salesPoint' = SalesDataPoint(salesBase, salesDates[salesIndex + 1], salesIndex,
                                     Len(salesDates), draws)
    /\ salesPc' = "returned"
    /\ UNCHANGED <<salesArgs, salesBase, salesDates, salesIndex, fitVars, fcVars, pageVars, otherVars>>

\* an empty array is returned: no date to map
SalesReturnEmpty ==
    /\ salesPc = "mapping"
    /\ Len(salesDates) = 0
    /\ salesPc' = "returned"
    /\ UNCHANGED <<salesArgs, salesBase, salesDates, salesIndex, salesPoint,
                   fitVars, fcVars, pageVars, otherVars>>

NextSales == SalesBegin \/ SalesMapPoint \/ SalesReturnEmpty

----------------------------------------------------------------------------
(* generateDateSeries called on its own *)

\* start dates: a 31st before a short month, the end of a leap February, the
\* last week of a year, a 30th, a mid-month day, a 1st
StartDates ==
    {[year |-> 2024, month |-> 0, date |-> 31],
     [year |-> 2024, month |-> 1, date |-> 28],
     [year |-> 2023, month |-> 11, date |-> 27],
     [year |-> 2024, month |-> 2, date |-> 30],
     [year |-> 2024, month |-> 8, date |-> 15],
     [year |-> 2025, month |-> 0, date |-> 1]}

\* the lowest count handed to generateDateSeries
MinDays == -2

NoDates == [error |-> "none", dates |-> <<>>]

RestDates ==
    /\ dsPc = "idle"
    /\ dsArgs = [startDate |-> SalesStart, days |-> 0, interval |-> "day"]
    /\ dsStartDate = SalesStart
    /\ dsResult = NoDates

InitDates ==
    /\ dsPc = "ready"
    /\ \E startDate \in StartDates, days \in MinDays..MaxDates, interval \in Intervals :
        /\ dsArgs = [startDate |-> startDate, days |-> days, interval |-> interval]
        /\ dsStartDate = startDate
    /\ dsResult = NoDates

\* the call: the loop works on currentDate, a copy of startDate, and pushes
\* copies of it; nothing in the function throws
GenerateDates ==
    /\ dsPc = "ready"
    /\ dsPc' = "returned"
    /\ dsResult' = [error |-> "none",
                    dates |-> generateDateSeries(dsStartDate, dsArgs.days, dsArgs.interval)]
    /\ dsStartDate' = dsStartDate
    /\ UNCHANGED <<dsArgs, fitVars, fcVars, pageVars, salesVars, rndVars, pureLog, retryVars,
                   dataVars, uiVars>>

NextDates == GenerateDates

----------------------------------------------------------------------------
(* randomBetween and randomFromArray as the engine evaluates them: every     *)
(* product and sum is rounded to the nearest IEEE-754 double, ties to even.  *)
(* A non-negative value is <<hi, lo>>, standing for (hi * 2^27 + lo) / 2^53  *)
(* with 0 <= lo < 2^27, so that every double in [2^-1, 2^5) is exact.        *)

LoBase == 2^27
HiOne == 2^26

FxNorm(hi, lo) == <<hi + lo \div LoBase, lo % LoBase>>
FxMulInt(x, n) == FxNorm(x[1] * n, x[2] * n)

RECURSIVE Log2Floor(_)
Log2Floor(k) == IF k < 2 THEN 0 ELSE 1 + Log2Floor(k \div 2)

\* bits beyond the 53 significant ones
DropBits(x) == IF x[1] < HiOne THEN 0 ELSE 1 + Log2Floor(x[1] \div HiOne)

\* round to nearest, ties to even
RoundToDouble(x) ==
    LET s == DropBits(x)
        unit == 2^s
        r == x[2] % unit
        down == x[2] - r
        odd == (down \div unit) % 2 = 1
        up == 2 * r > unit \/ (2 * r = unit /\ odd)
    IN  IF s = 0 THEN x
        ELSE FxNorm(x[1], IF up THEN down + unit ELSE down)

\* Math.random() * n for an integer n >= 0
DMulInt(rnd, n) == RoundToDouble(FxMulInt(rnd, n))

\* p + i for a double p >= 0 and an integer i: a sign and a magnitude
DAddInt(p, i) ==
    IF i >= 0 THEN [neg |-> FALSE, mag |-> RoundToDouble(<<p[1] + i * HiOne, p[2]>>)]
    ELSE IF p[1] >= (-i) * HiOne
    THEN [neg |-> FALSE, mag |-> RoundToDouble(<<p[1] + i * HiOne, p[2]>>)]
    ELSE [neg |-> TRUE,
          mag |-> RoundToDouble(IF p[2] = 0 THEN <<(-i) * HiOne - p[1], 0>>
                                ELSE <<(-i) * HiOne - p[1] - 1, LoBase - p[2]>>)]

\* Math.floor
DFloor(v) ==
    LET whole == v.mag[1] \div HiOne
        exact == v.mag[1] % HiOne = 0 /\ v.mag[2] = 0
    IN  IF ~v.neg THEN whole
        ELSE IF exact THEN -whole
        ELSE -(whole + 1)

\* Math.floor(Math.random() * (max - min + 1) + min)
randomBetweenDouble(min, max, rnd) == DFloor(DAddInt(DMulInt(rnd, max - min + 1), min))

\* array[Math.floor(Math.random() * array.length)]; reading past the end of
\* an array yields undefined
randomFromArray(array, rnd) ==
    LET index == DFloor([neg |-> FALSE, mag |-> DMulInt(rnd, Len(array))])
    IN  IF index < Len(array) THEN [error |-> "none", value |-> array[index + 1]]
        ELSE [error |-> "none", value |-> "undefined"]

\* values Math.random() can return: 0, 1/2, 1 - 2^-52 and 1 - 2^-53, the
\* largest double below 1
RandomDoubles ==
    {<<0, 0>>, <<HiOne \div 2, 0>>, <<HiOne - 1, LoBase - 2>>, <<HiOne - 1, LoBase - 1>>}

ArrayItems == {"a", "b"}

NoRandomResult == [error |-> "none", value |-> "undefined"]

RestRandom ==
    /\ rndPc = "idle"
    /\ rndCall = [fn |-> "none"]
    /\ rndResult = NoRandomResult

InitRandom ==
    /\ rndPc = "ready"
    /\ \/ \E min \in -2..MaxRandomInt, max \in -2..MaxRandomInt, rnd \in RandomDoubles :
            /\ min <= max
            /\ rndCall = [fn |-> "randomBetween", min |-> min, max |-> max, rnd |-> rnd]
       \/ \E array \in SeqsUpTo(ArrayItems, MaxArrayLen), rnd \in RandomDoubles :
            rndCall = [fn |-> "randomFromArray", array |-> array, rnd |-> rnd]
    /\ rndResult = NoRandomResult

CallRandomBetween ==
    /\ rndPc = "ready"
    /\ rndCall.fn = "randomBetween"
    /\ rndPc' = "returned"
    /\ rndResult' = [error |-> "none",
                     value |-> randomBetweenDouble(rndCall.min, rndCall.max, rndCall.rnd)]
    /\ UNCHANGED <<rndCall, fitVars, fcVars, pageVars, salesVars, dateVars, pureLog, retryVars,
                   dataVars, uiVars>>

CallRandomFromArray ==
    /\ rndPc = "ready"
    /\ rndCall.fn = "randomFromArray"
    /\ rndPc' = "returned"
    /\ rndResult' = randomFromArray(rndCall.array, rndCall.rnd)
    /\ UNCHANGED <<rndCall, fitVars, fcVars, pageVars, salesVars, dateVars, pureLog, retryVars,
                   dataVars, uiVars>>

NextRandom == CallRandomBetween \/ CallRandomFromArray

----------------------------------------------------------------------------
(* linearRegression and generateForecast called by several callers: the     *)
(* forecast memo, the comparison memo and the inline chart data of the      *)
(* Predictions page. The functions are synchronous, so calls interleave as  *)
(* wholes.                                                                  *)

Callers == {"forecast", "comparativeForecasts"}

\* the histories the callers share
SharedHistories ==
    {History([year |-> 2026, month |-> 0, date |-> 1], <<100, 400>>),
     History([year |-> 2024, month |-> 11, date |-> 31], <<900, 400, 100>>)}

\* a call of linearRegression: its result, and the argument as the call leaves
\* it; the function only reads data.length and each point's revenue
FitCall(caller, history) ==
    [caller |-> caller, fn |-> "linearRegression",
     args |-> [history |-> history],
     result |-> linearRegression(Given(history)),
     after |-> [history |-> history]]

\* a call of generateForecast: it reads historicalData and params and pushes
\* only to its own local array
ForecastCall(caller, history, modelId, months, params) ==
    [caller |-> caller, fn |-> "generateForecast",
     args |-> [history |-> history, modelId |-> modelId, months |-> months,
               params |-> params],
     result |-> generateForecast(history, modelId, months, params),
     after |-> [history |-> history, params |-> params]]

RestPure == pureLog = <<>>

CallLinearRegression ==
    /\ Len(pureLog) < MaxCalls
    /\ \E caller \in Callers, history \in SharedHistories :
        pureLog' = Append(pureLog, FitCall(caller, history))
    /\ UNCHANGED <<fitVars, fcVars, pageVars, salesVars, dateVars, rndVars, retryVars,
                   dataVars, uiVars>>

CallGenerateForecast ==
    /\ Len(pureLog) < MaxCalls
    /\ \E caller \in Callers, history \in SharedHistories, modelId \in ModelIds,
          months \in 1..MaxPeriods :
        pureLog' = Append(pureLog, ForecastCall(caller, history, modelId, months,
                                                DefaultParams[modelId]))
    /\ UNCHANGED <<fitVars, fcVars, pageVars, salesVars, dateVars, rndVars, retryVars,
                   dataVars, uiVars>>

NextPure == CallLinearRegression \/ CallGenerateForecast

----------------------------------------------------------------------------
(* retryRequest, API client module *)

\* initial delays in ms; 1000 is the default
InitialDelays == {1, 100, 250, 1000}

NoRetryResult == [status |-> "pending", value |-> 0]

RestRetry ==
    /\ retryPc = "idle"
    /\ retryArgs = [maxRetries |-> 0, initialDelay |-> 1000]
    /\ retries = 0
    /\ retryCalls = <<>>
    /\ retryDelays = <<>>
    /\ retryResult = NoRetryResult

\* retryRequest(requestFn, maxRetries, initialDelay) has been called: retries
\* is 0 and executeRequest is about to call requestFn
InitRetry ==
    /\ retryPc = "calling"
    /\ \E maxRetries \in 0..MaxRetries, initialDelay \in InitialDelays :
        retryArgs = [maxRetries |-> maxRetries, initialDelay |-> initialDelay]
    /\ retries = 0
    /\ retryCalls = <<>>
    /\ retryDelays = <<>>
    /\ retryResult = NoRetryResult

\* mutant: the budget test lets one more retry through
RetryExhaustedLate(count, maxRetries) == count > maxRetries

\* if (retries >= maxRetries) throw error
RetryExhausted(count, maxRetries) == count >= maxRetries

\* initialDelay * Math.pow(2, retries)
RetryDelay(initialDelay, count) == initialDelay * 2^count

\* requestFn resolves: executeRequest returns its value; the k-th call's
\* value is written k
RequestSucceeds ==
    /\ retryPc = "calling"
    /\ retryCalls' = Append(retryCalls, [ok |-> TRUE, id |-> Len(retryCalls) + 1])
    /\ retryResult' = [status |-> "resolved", value |-> Len(retryCalls) + 1]
    /\ retryPc' = "resolved"
    /\ UNCHANGED <<retryArgs, retries, retryDelays,
                   fitVars, fcVars, pageVars, salesVars, dateVars, rndVars, pureLog,
                   dataVars, uiVars>>

\* requestFn rejects: the catch block rethrows when the budget is used up and
\* otherwise starts the timer; the k-th call's error is written k
RequestFails ==
    /\ retryPc = "calling"
    /\ retryCalls' = Append(retryCalls, [ok |-> FALSE, id |-> Len(retryCalls) + 1])
    /\ IF RetryExhausted(retries, retryArgs.maxRetries)
       THEN /\ retryResult' = [status |-> "rejected", value |-> Len(retryCalls) + 1]
            /\ retryPc' = "rejected"
            /\ UNCHANGED retryDelays
       ELSE /\ retryDelays' = Append(retryDelays,
                                     RetryDelay(retryArgs.initialDelay, retries))
            /\ retryPc' = "waiting"
            /\ UNCHANGED retryResult
    /\ UNCHANGED <<retryArgs, retries,
                   fitVars, fcVars, pageVars, salesVars, dateVars, rndVars, pureLog,
                   dataVars, uiVars>>

\* the timer fires: retries++ and executeRequest is entered again
RetryTimerFires ==
    /\ retryPc = "waiting"
    /\ retries' = retries + 1
    /\ retryPc' = "calling"
    /\ UNCHANGED <<retryArgs, retryCalls, retryDelays, retryResult,
                   fitVars, fcVars, pageVars, salesVars, dateVars, rndVars, pureLog,
                   dataVars, uiVars>>

NextRetry == RequestSucceeds \/ RequestFails \/ RetryTimerFires

----------------------------------------------------------------------------
(* useData, data-fetching hook. A state setter is modelled as taking effect  *)
(* at once; the code after an await runs as one step.                       *)

Null == "null"
Undefined == "undefined"

\* what a request can resolve with and reject with
Payloads == {"rows1", "rows2"}
ApiErrors == {[message |-> "Network Error", status |-> 0],
              [message |-> "Not Found", status |-> 404]}

\* mutant: every error is shown by the same fixed text
errorTransformGeneric(apiError) == "Request failed"

\* default options: errorTransform = error => error.message,
\* dataTransform = data => data as T (a type cast, no conversion)
errorTransform(apiError) == apiError.message
dataTransform(result) == result

RestData ==
    /\ udMounted = FALSE
    /\ udOptions = [fetchOnMount |-> TRUE, initialData |-> Undefined]
    /\ udData = Undefined
    /\ udIsLoading = FALSE
    /\ udError = Null
    /\ udLastFetchedAt = Null
    /\ udFetches = <<>>
    /\ udNow = 0
    /\ udCallbacks = <<>>

\* the useState initial values, for each choice of options
InitData ==
    /\ udMounted = FALSE
    /\ \E fetchOnMount \in BOOLEAN, initialData \in {Undefined, "cached"} :
        /\ udOptions = [fetchOnMount |-> fetchOnMount, initialData |-> initialData]
        /\ udData = initialData
    /\ udIsLoading = FALSE
    /\ udError = Null
    /\ udLastFetchedAt = Null
    /\ udFetches = <<>>
    /\ udNow = 0
    /\ udCallbacks = <<>>

InFlight(f) == f \in 1..Len(udFetches) /\ udFetches[f].status = "inflight"

\* fetchData up to its await: setIsLoading(true), setError(null), the request
\* is sent
FetchDataStart(source) ==
    /\ Len(udFetches) < MaxFetches
    /\ udIsLoading' = TRUE
    /\ udError' = Null
    /\ udFetches' = Append(udFetches, [source |-> source, status |-> "inflight",
                                       settled |-> Undefined, result |-> Undefined])
    /\ udNow' = udNow + 1
    /\ UNCHANGED <<udOptions, udData, udLastFetchedAt, udCallbacks>>

\* the effect on mount
UseDataMount ==
    /\ ~udMounted
    /\ udMounted' = TRUE
    /\ IF udOptions.fetchOnMount
       THEN FetchDataStart("mount")
       ELSE UNCHANGED <<udOptions, udData, udIsLoading, udError, udLastFetchedAt,
                        udFetches, udNow, udCallbacks>>
    /\ UNCHANGED <<fitVars, fcVars, pageVars, salesVars, dateVars, rndVars, pureLog,
                   retryVars, uiVars>>

\* the effect again, its dependencies having changed
UseDataEffectAgain ==
    /\ udMounted
    /\ udOptions.fetchOnMount
    /\ FetchDataStart("effect")
    /\ UNCHANGED <<udMounted, fitVars, fcVars, pageVars, salesVars, dateVars, rndVars,
                   pureLog, retryVars, uiVars>>

\* the component calls fetch() or refresh(): both are fetchData
UseDataFetch ==
    /\ udMounted
    /\ FetchDataStart("fetch")
    /\ UNCHANGED <<udMounted, fitVars, fcVars, pageVars, salesVars, dateVars, rndVars,
                   pureLog, retryVars, uiVars>>

\* the request of an in-flight fetchData resolves: the rest of the try block,
\* then finally
FetchDataResolves ==
    /\ \E f \in 1..Len(udFetches), result \in Payloads :
        /\ InFlight(f)
        /\ udData' = dataTransform(result)
        /\ udLastFetchedAt' = udNow + 1
        /\ udCallbacks' = Append(udCallbacks,
                                 [callback |-> "onSuccess", arg |-> dataTransform(result)])
        /\ udFetches' = [udFetches EXCEPT ![f] =
                             [@ EXCEPT !.status = "resolved", !.settled = result,
                                       !.result = dataTransform(result)]]
    /\ udIsLoading' = FALSE
    /\ udNow' = udNow + 1
    /\ UNCHANGED <<udMounted, udOptions, udError, fitVars, fcVars, pageVars, salesVars,
                   dateVars, rndVars, pureLog, retryVars, uiVars>>

\* the request of an in-flight fetchData rejects: the catch block, then finally
FetchDataRejects ==
    /\ \E f \in 1..Len(udFetches), apiError \in ApiErrors :
        /\ InFlight(f)
        /\ udError' = errorTransform(apiError)
        /\ udCallbacks' = Append(udCallbacks, [callback |-> "onError", arg |-> apiError])
        /\ udFetches' = [udFetches EXCEPT ![f] =
                             [@ EXCEPT !.status = "rejected", !.settled = apiError,
                                       !.result = Undefined]]
    /\ udIsLoading' = FALSE
    /\ udNow' = udNow + 1
    /\ UNCHANGED <<udMounted, udOptions, udData, udLastFetchedAt, fitVars, fcVars,
                   pageVars, salesVars, dateVars, rndVars, pureLog, retryVars, uiVars>>

clearError ==
    /\ udMounted
    /\ udError' = Null
    /\ UNCHANGED <<udMounted, udOptions, udData, udIsLoading, udLastFetchedAt, udFetches,
                   udNow, udCallbacks, fitVars, fcVars, pageVars, salesVars, dateVars,
                   rndVars, pureLog, retryVars, uiVars>>

clearData ==
    /\ udMounted
    /\ udData' = udOptions.initialData
    /\ UNCHANGED <<udMounted, udOptions, udIsLoading, udError, udLastFetchedAt, udFetches,
                   udNow, udCallbacks, fitVars, fcVars, pageVars, salesVars, dateVars,
                   rndVars, pureLog, retryVars, uiVars>>

NextData ==
    \/ UseDataMount
    \/ UseDataEffectAgain
    \/ UseDataFetch
    \/ FetchDataResolves
    \/ FetchDataRejects
    \/ clearError
    \/ clearData

----------------------------------------------------------------------------
(* useDebounce, utility hooks; the search text of useDashboardState is      *)
(* debounced by the same effect. A change of the value, the render it       *)
(* causes and the effect of that render are one step; time is counted in    *)
(* clock ticks and a timeout may fire late, never early.                    *)

DebounceInputs == {"a", "b"}

\* mutant: the cleanup does not clear the previous timeout
TimersAfterEffectKeepingOld(timers, value, delay) ==
    timers \cup {[value |-> value, left |-> delay]}

\* the effect for [value, delay]: the cleanup of the previous run clears its
\* timeout, then setTimeout(() => setDebouncedValue(value), delay)
TimersAfterEffect(timers, value, delay) == {[value |-> value, left |-> delay]}

RestDebounce ==
    /\ dbValue = "a"
    /\ dbDelay = 1
    /\ dbDebounced = "a"
    /\ dbTimers = {}
    /\ dbValueAge = 0
    /\ dbChanges = 0
    /\ dbPublications = <<>>

\* the first render: useState(value), then the effect
InitDebounce ==
    /\ dbValue \in DebounceInputs
    /\ dbDelay \in 1..MaxDelay
    /\ dbDebounced = dbValue
    /\ dbTimers = TimersAfterEffect({}, dbValue, dbDelay)
    /\ dbValueAge = 0
    /\ dbChanges = 0
    /\ dbPublications = <<>>

\* the caller renders with another value
DebounceValueChanges ==
    /\ dbChanges < MaxChanges
    /\ \E value \in DebounceInputs \ {dbValue} :
        /\ dbValue' = value
        /\ dbTimers' = TimersAfterEffect(dbTimers, value, dbDelay)
    /\ dbValueAge' = 0
    /\ dbChanges' = dbChanges + 1
    /\ UNCHANGED <<dbDelay, dbDebounced, dbPublications, allButDebounce>>

\* one tick of the clock
DebounceTick ==
    /\ \E timer \in dbTimers : timer.left > 0
    /\ dbTimers' = {[timer EXCEPT !.left = IF @ > 0 THEN @ - 1 ELSE 0] : timer \in dbTimers}
    /\ dbValueAge' = IF dbValueAge < dbDelay THEN dbValueAge + 1 ELSE dbValueAge
    /\ UNCHANGED <<dbValue, dbDelay, dbDebounced, dbChanges, dbPublications, allButDebounce>>

\* a timeout that is due fires: setDebouncedValue(value), value being the one
\* the effect closed over
DebounceTimerFires ==
    /\ \E timer \in dbTimers :
        /\ timer.left = 0
        /\ dbDebounced' = timer.value
        /\ dbTimers' = dbTimers \ {timer}
        /\ dbPublications' = Append(dbPublications,
                                    [value |-> timer.value, input |-> dbValue,
                                     heldFor |-> dbValueAge])
    /\ UNCHANGED <<dbValue, dbDelay, dbValueAge, dbChanges, allButDebounce>>

NextDebounce == DebounceValueChanges \/ DebounceTick \/ DebounceTimerFires

----------------------------------------------------------------------------
(* useThrottle, utility hooks. Calls of the returned function, the timeout  *)
(* callback and the ticks of the clock interleave freely; a timeout fires   *)
(* at its due time or later.                                                *)

ThrottleArgs == {"x", "y"}

\* Date.now() when the hook is created: later than the epoch by more than
\* any delay
ThrottleStart == MaxDelay

RestThrottle ==
    /\ thDelay = 1
    /\ thNow = ThrottleStart
    /\ thLastRan = 0
    /\ thTimeout = {}
    /\ thLastArgs = Null
    /\ thCalls = <<>>
    /\ thInvocations = <<>>

\* useRef(0), useRef(null), useRef(null)
InitThrottle ==
    /\ thDelay \in 1..MaxDelay
    /\ thNow = ThrottleStart
    /\ thLastRan = 0
    /\ thTimeout = {}
    /\ thLastArgs = Null
    /\ thCalls = <<>>
    /\ thInvocations = <<>>

\* the returned function is called with args and finds that enough time has
\* passed: callback(...args); lastRan.current = now
ThrottledCallRunsNow ==
    /\ Len(thCalls) < MaxThrottleCalls
    /\ thNow - thLastRan >= thDelay
    /\ \E args \in ThrottleArgs :
        /\ thLastArgs' = args
        /\ thCalls' = Append(thCalls, [at |-> thNow, args |-> args, ranNow |-> TRUE])
        /\ thInvocations' = Append(thInvocations, [at |-> thNow, args |-> args])
    /\ thLastRan' = thNow
    /\ UNCHANGED <<thDelay, thNow, thTimeout, allButThrottle>>

\* the returned function is called inside the window: a pending timeout is
\* cleared and one is set for delay - (now - lastRan.current) from now
ThrottledCallSchedules ==
    /\ Len(thCalls) < MaxThrottleCalls
    /\ thNow - thLastRan < thDelay
    /\ \E args \in ThrottleArgs :
        /\ thLastArgs' = args
        /\ thCalls' = Append(thCalls, [at |-> thNow, args |-> args, ranNow |-> FALSE])
    /\ thTimeout' = {thNow + (thDelay - (thNow - thLastRan))}
    /\ UNCHANGED <<thDelay, thNow, thLastRan, thInvocations, allButThrottle>>

\* the timeout callback runs
ThrottleTimerFires ==
    /\ \E due \in thTimeout : due <= thNow
    /\ IF thLastArgs # Null
       THEN /\ thInvocations' = Append(thInvocations, [at |-> thNow, args |-> thLastArgs])
            /\ thLastRan' = thNow
            /\ thTimeout' = {}
       ELSE /\ thTimeout' = {}
            /\ UNCHANGED <<thInvocations, thLastRan>>
    /\ UNCHANGED <<thDelay, thNow, thLastArgs, thCalls, allButThrottle>>

\* one tick of the clock
ThrottleTick ==
    /\ thNow < ThrottleStart + MaxElapsed
    /\ thNow' = thNow + 1
    /\ UNCHANGED <<thDelay, thLastRan, thTimeout, thLastArgs, thCalls, thInvocations,
                   allButThrottle>>

NextThrottle ==
    ThrottledCallRunsNow \/ ThrottledCallSchedules \/ ThrottleTimerFires \/ ThrottleTick

----------------------------------------------------------------------------
(* createApiClient: the response interceptor. One request of a caller is    *)
(* followed from its first response to the settling of the caller's         *)
(* promise. The refresh is posted through the same client, so its           *)
(* responses pass through the same interceptor with a configuration of      *)
(* their own.                                                               *)

ApiStatuses == {200, 401, 500}

\* a promise that has not settled
ApiUnsettled(state) == [state |-> state, status |-> 0]

ApiFrame(request, skipAuthRefresh) ==
    [request |-> request, skipAuthRefresh |-> skipAuthRefresh, retry |-> FALSE,
     phase |-> "sent"]

RestApi ==
    /\ apiFrames = <<>>
    /\ apiRequests = 0
    /\ apiChild = ApiUnsettled("none")
    /\ apiAuthToken = Null
    /\ apiRefreshToken = Null
    /\ apiOutcome = ApiUnsettled("pending")
    /\ apiRefreshCalls = 0
    /\ apiReplays = 0
    /\ apiAuthErrors = 0

\* the client has been created; the storage holds what an earlier session left
InitApi ==
    /\ apiFrames = <<>>
    /\ apiRequests = 0
    /\ apiChild = ApiUnsettled("none")
    /\ apiAuthToken \in {Null, "old"}
    /\ apiRefreshToken \in {Null, "old"}
    /\ apiOutcome = ApiUnsettled("pending")
    /\ apiRefreshCalls = 0
    /\ apiReplays = 0
    /\ apiAuthErrors = 0

\* a caller sends a request once the one before it has settled
ApiRequestSent ==
    /\ apiFrames = <<>>
    /\ apiRequests < MaxApiRequests
    /\ apiRequests' = apiRequests + 1
    /\ \E skipAuthRefresh \in BOOLEAN :
        apiFrames' = <<ApiFrame("data", skipAuthRefresh)>>
    /\ apiOutcome' = ApiUnsettled("pending")
    /\ apiRefreshCalls' = 0
    /\ apiReplays' = 0
    /\ apiAuthErrors' = 0
    /\ UNCHANGED <<apiChild, apiAuthToken, apiRefreshToken, allButApi>>

ApiTop == apiFrames[Len(apiFrames)]

\* the promise of the last frame settles: the caller's promise if it is the
\* only frame, the refresh awaited by the frame before it otherwise
ApiSettles(outcome, status) ==
    /\ apiFrames' = SubSeq(apiFrames, 1, Len(apiFrames) - 1)
    /\ IF Len(apiFrames) = 1
       THEN /\ apiOutcome' = [state |-> outcome, status |-> status]
            /\ apiChild' = ApiUnsettled("none")
       ELSE /\ apiChild' = [state |-> outcome, status |-> status]
            /\ UNCHANGED apiOutcome

\* handleAuthError
handleAuthError ==
    /\ apiAuthToken' = Null
    /\ apiRefreshToken' = Null
    /\ apiAuthErrors' = apiAuthErrors + 1

\* the server answers the request in flight with a success status
ApiRespondsOk ==
    /\ apiFrames # <<>>
    /\ apiChild.state = "none"
    /\ ApiSettles("resolved", 200)
    /\ UNCHANGED <<apiAuthToken, apiRefreshToken, apiRefreshCalls, apiReplays,
                   apiAuthErrors, apiRequests, allButApi>>

\* the server answers the request in flight with an error that the
\* interceptor hands to handleApiError
ApiRespondsError ==
    /\ apiFrames # <<>>
    /\ apiChild.state = "none"
    /\ \E status \in ApiStatuses \ {200} :
        /\ \/ ApiTop.skipAuthRefresh
           \/ ~(status = 401 /\ ~ApiTop.retry)
        /\ ApiSettles("rejected", status)
    /\ UNCHANGED <<apiAuthToken, apiRefreshToken, apiRefreshCalls, apiReplays,
                   apiAuthErrors, apiRequests, allButApi>>

\* a 401 for a request not yet retried, no refresh token stored
ApiResponds401NoRefreshToken ==
    /\ apiFrames # <<>>
    /\ apiChild.state = "none"
    /\ ~ApiTop.skipAuthRefresh
    /\ ~ApiTop.retry
    /\ apiRefreshToken = Null
    /\ handleAuthError
    /\ ApiSettles("rejected", 401)
    /\ UNCHANGED <<apiRefreshCalls, apiReplays, apiRequests, allButApi>>

\* a 401 for a request not yet retried: _retry is set and the refresh is
\* posted
ApiResponds401Refreshes ==
    /\ apiFrames # <<>>
    /\ apiChild.state = "none"
    /\ ~ApiTop.skipAuthRefresh
    /\ ~ApiTop.retry
    /\ apiRefreshToken # Null
    /\ apiRefreshCalls < MaxRefreshCalls
    /\ apiFrames' = Append([apiFrames EXCEPT ![Len(apiFrames)] =
                                [@ EXCEPT !.retry = TRUE, !.phase = "refreshing"]],
                           ApiFrame("refresh", FALSE))
    /\ apiRefreshCalls' = apiRefreshCalls + 1
    /\ UNCHANGED <<apiChild, apiAuthToken, apiRefreshToken, apiOutcome, apiReplays,
                   apiAuthErrors, apiRequests, allButApi>>

\* the awaited refresh resolved: the tokens are stored and the request is
\* replayed
ApiRefreshResolved ==
    /\ apiChild.state = "resolved"
    /\ apiAuthToken' = "new"
    /\ apiRefreshToken' = "new"
    /\ apiFrames' = [apiFrames EXCEPT ![Len(apiFrames)] = [@ EXCEPT !.phase = "replayed"]]
    /\ apiReplays' = apiReplays + 1
    /\ apiChild' = ApiUnsettled("none")
    /\ UNCHANGED <<apiOutcome, apiRefreshCalls, apiAuthErrors, apiRequests, allButApi>>

\* the awaited refresh rejected: the catch block
ApiRefreshRejected ==
    /\ apiChild.state = "rejected"
    /\ handleAuthError
    /\ ApiSettles("rejected", apiChild.status)
    /\ UNCHANGED <<apiRefreshCalls, apiReplays, apiRequests, allButApi>>

NextApi ==
    \/ ApiRequestSent
    \/ ApiRespondsOk
    \/ ApiRespondsError
    \/ ApiResponds401NoRefreshToken
    \/ ApiResponds401Refreshes
    \/ ApiRefreshResolved
    \/ ApiRefreshRejected

----------------------------------------------------------------------------
(* The Transactions page. A transaction is known by its id; the mock data   *)
(* give it a customer, a category and a date. Of the filters the search     *)
(* text and the category filter are followed; the payment status, shipment  *)
(* status and date handlers have the same shape (set the filter, then       *)
(* setPage(0)). The action menu and the delete dialog are modal.            *)

TxCustomers == <<"ann", "ann", "bob", "bob", "ann">>
TxCategories == <<"Electronics", "Clothing", "Electronics", "Clothing", "Clothing">>

\* the days of the dates, in no order
TxDates == <<3, 6, 2, 5, 1>>

Transaction(id) ==
    [id |-> id, customer |-> TxCustomers[id], category |-> TxCategories[id],
     date |-> TxDates[id]]

generateMockTransactions(count) == 1..count

SearchQueries == {"", "ann", "bob"}
CategoryFilters == {{}, {"Electronics"}, {"Clothing"}}
RowsPerPageOptions == {1, 2, MaxTransactions}
SortProperties == {"date", "id"}

\* filteredTransactions
filteredTransactions ==
    {id \in txTransactions :
        /\ txCategoryFilter = {} \/ Transaction(id).category \in txCategoryFilter
        /\ txSearchQuery = "" \/ Transaction(id).customer = txSearchQuery}

TxSortKey(id) == IF txOrderBy = "date" THEN Transaction(id).date ELSE id

RECURSIVE TxSort(_)
TxSort(ids) ==
    IF ids = {} THEN <<>>
    ELSE LET first == CHOOSE id \in ids :
                 \A other \in ids :
                     IF txOrder = "asc" THEN TxSortKey(id) <= TxSortKey(other)
                     ELSE TxSortKey(id) >= TxSortKey(other)
         IN <<first>> \o TxSort(ids \ {first})

sortedTransactions == TxSort(filteredTransactions)

\* Array.prototype.slice(start, end) of a list
Slice(list, start, end) ==
    SubSeq(list, start + 1, IF end < Len(list) THEN end ELSE Len(list))

paginatedTransactions ==
    Slice(sortedTransactions, txPage * txRowsPerPage, txPage * txRowsPerPage + txRowsPerPage)

PaginatedIds == {paginatedTransactions[k] : k \in 1..Len(paginatedTransactions)}

\* the page with the table shown and neither the menu nor the dialog open
TxTableShown == ~txIsLoading /\ ~txMenuOpen /\ ~txDeleteDialogOpen

txFilterVars == <<txSearchQuery, txCategoryFilter>>
txTableVars == <<txPage, txRowsPerPage, txOrderBy, txOrder>>
txDialogVars == <<txMenuOpen, txCurrent, txDeleteDialogOpen, txMenuRow>>
txLoadVars == <<txIsLoading, txLoadPending>>

RestTransactions ==
    /\ txTransactions = {}
    /\ txIsLoading = FALSE
    /\ txLoadPending = FALSE
    /\ txSearchQuery = ""
    /\ txCategoryFilter = {}
    /\ txPage = 0
    /\ txRowsPerPage = 2
    /\ txOrderBy = "date"
    /\ txOrder = "desc"
    /\ txSelected = {}
    /\ txMenuOpen = FALSE
    /\ txCurrent = {}
    /\ txDeleteDialogOpen = FALSE
    /\ txMenuRow = {}
    /\ txLastHandler = "none"

\* the page has mounted and its effect has started loadData
InitTransactions ==
    /\ txTransactions = {}
    /\ txIsLoading = TRUE
    /\ txLoadPending = TRUE
    /\ txSearchQuery = ""
    /\ txCategoryFilter = {}
    /\ txPage = 0
    /\ txRowsPerPage = 2
    /\ txOrderBy = "date"
    /\ txOrder = "desc"
    /\ txSelected = {}
    /\ txMenuOpen = FALSE
    /\ txCurrent = {}
    /\ txDeleteDialogOpen = FALSE
    /\ txMenuRow = {}
    /\ txLastHandler = "none"

\* loadData after its timer: the mock data are stored, isLoading is reset
TxLoadDataResolves ==
    /\ txLoadPending
    /\ txTransactions' = generateMockTransactions(MaxTransactions)
    /\ txIsLoading' = FALSE
    /\ txLoadPending' = FALSE
    /\ txLastHandler' = "loadData"
    /\ UNCHANGED <<txFilterVars, txTableVars, txSelected, txDialogVars, allButTransactions>>

\* the Refresh button: onClick={() => setIsLoading(true)}
TxRefreshClick ==
    /\ ~txIsLoading /\ ~txMenuOpen /\ ~txDeleteDialogOpen
    /\ txSelected = {}
    /\ txIsLoading' = TRUE
    /\ txLastHandler' = "refresh"
    /\ UNCHANGED <<txTransactions, txLoadPending, txFilterVars, txTableVars, txSelected,
                   txDialogVars, allButTransactions>>

handleSearchChange ==
    /\ ~txMenuOpen /\ ~txDeleteDialogOpen
    /\ \E query \in SearchQueries \ {txSearchQuery} : txSearchQuery' = query
    /\ txPage' = 0
    /\ txLastHandler' = "handleSearchChange"
    /\ UNCHANGED <<txTransactions, txLoadVars, txCategoryFilter, txRowsPerPage, txOrderBy,
                   txOrder, txSelected, txDialogVars, allButTransactions>>

handleCategoryChange ==
    /\ ~txMenuOpen /\ ~txDeleteDialogOpen
    /\ \E value \in CategoryFilters \ {txCategoryFilter} : txCategoryFilter' = value
    /\ txPage' = 0
    /\ txLastHandler' = "handleCategoryChange"
    /\ UNCHANGED <<txTransactions, txLoadVars, txSearchQuery, txRowsPerPage, txOrderBy,
                   txOrder, txSelected, txDialogVars, allButTransactions>>

handleRequestSort ==
    /\ TxTableShown
    /\ \E property \in SortProperties :
        LET isAsc == txOrderBy = property /\ txOrder = "asc"
        IN /\ txOrder' = IF isAsc THEN "desc" ELSE "asc"
           /\ txOrderBy' = property
    /\ txLastHandler' = "handleRequestSort"
    /\ UNCHANGED <<txTransactions, txLoadVars, txFilterVars, txPage, txRowsPerPage,
                   txSelected, txDialogVars, allButTransactions>>

\* the last page the pagination control offers
TxLastPage ==
    LET count == Cardinality(filteredTransactions)
    IN IF count = 0 THEN 0 ELSE (count + txRowsPerPage - 1) \div txRowsPerPage - 1

\* the next and previous buttons of the pagination control
handleChangePage ==
    /\ TxTableShown
    /\ \E newPage \in {txPage - 1, txPage + 1} :
        /\ newPage >= 0
        /\ newPage > txPage => txPage < TxLastPage
        /\ txPage' = newPage
    /\ txLastHandler' = "handleChangePage"
    /\ UNCHANGED <<txTransactions, txLoadVars, txFilterVars, txRowsPerPage, txOrderBy,
                   txOrder, txSelected, txDialogVars, allButTransactions>>

handleChangeRowsPerPage ==
    /\ TxTableShown
    /\ \E value \in RowsPerPageOptions \ {txRowsPerPage} : txRowsPerPage' = value
    /\ txPage' = 0
    /\ txLastHandler' = "handleChangeRowsPerPage"
    /\ UNCHANGED <<txTransactions, txLoadVars, txFilterVars, txOrderBy, txOrder,
                   txSelected, txDialogVars, allButTransactions>>

handleSelectAllClick ==
    /\ TxTableShown
    /\ \E checked \in BOOLEAN :
        txSelected' = IF checked THEN PaginatedIds ELSE {}
    /\ txLastHandler' = "handleSelectAllClick"
    /\ UNCHANGED <<txTransactions, txLoadVars, txFilterVars, txTableVars, txDialogVars,
                   allButTransactions>>

handleSelectClick ==
    /\ TxTableShown
    /\ \E id \in PaginatedIds :
        txSelected' = IF id \notin txSelected THEN txSelected \cup {id}
                      ELSE txSelected \ {id}
    /\ txLastHandler' = "handleSelectClick"
    /\ UNCHANGED <<txTransactions, txLoadVars, txFilterVars, txTableVars, txDialogVars,
                   allButTransactions>>

\* the action button of a row of the table
handleActionMenuOpen ==
    /\ TxTableShown
    /\ \E id \in PaginatedIds :
        /\ txCurrent' = {id}
        /\ txMenuRow' = {id}
    /\ txMenuOpen' = TRUE
    /\ txLastHandler' = "handleActionMenuOpen"
    /\ UNCHANGED <<txTransactions, txLoadVars, txFilterVars, txTableVars, txSelected,
                   txDeleteDialogOpen, allButTransactions>>

\* Edit Transaction, or a click outside the menu
handleActionMenuClose ==
    /\ txMenuOpen
    /\ txMenuOpen' = FALSE
    /\ txCurrent' = {}
    /\ txLastHandler' = "handleActionMenuClose"
    /\ UNCHANGED <<txTransactions, txLoadVars, txFilterVars, txTableVars, txSelected,
                   txDeleteDialogOpen, txMenuRow, allButTransactions>>

\* Delete of the menu: handleActionMenuClose(), then setDeleteDialogOpen(true)
handleDeleteClick ==
    /\ txMenuOpen
    /\ txMenuOpen' = FALSE
    /\ txCurrent' = {}
    /\ txDeleteDialogOpen' = TRUE
    /\ txLastHandler' = "handleDeleteClick"
    /\ UNCHANGED <<txTransactions, txLoadVars, txFilterVars, txTableVars, txSelected,
                   txMenuRow, allButTransactions>>

handleDeleteConfirm ==
    /\ txDeleteDialogOpen
    /\ IF txCurrent # {}
       THEN /\ txTransactions' = txTransactions \ txCurrent
            /\ txSelected' = txSelected \ txCurrent
       ELSE UNCHANGED <<txTransactions, txSelected>>
    /\ txDeleteDialogOpen' = FALSE
    /\ txCurrent' = {}
    /\ txLastHandler' = "handleDeleteConfirm"
    /\ UNCHANGED <<txLoadVars, txFilterVars, txTableVars, txMenuOpen, txMenuRow,
                   allButTransactions>>

handleDeleteCancel ==
    /\ txDeleteDialogOpen
    /\ txDeleteDialogOpen' = FALSE
    /\ txCurrent' = {}
    /\ txLastHandler' = "handleDeleteCancel"
    /\ UNCHANGED <<txTransactions, txLoadVars, txFilterVars, txTableVars, txSelected,
                   txMenuOpen, txMenuRow, allButTransactions>>

\* the Delete (n) button, shown while rows are selected
handleBulkDelete ==
    /\ ~txMenuOpen /\ ~txDeleteDialogOpen
    /\ txSelected # {}
    /\ txTransactions' = txTransactions \ txSelected
    /\ txSelected' = {}
    /\ txLastHandler' = "handleBulkDelete"
    /\ UNCHANGED <<txLoadVars, txFilterVars, txTableVars, txDialogVars, allButTransactions>>

NextTransactions ==
    \/ TxLoadDataResolves
    \/ TxRefreshClick
    \/ handleSearchChange
    \/ handleCategoryChange
    \/ handleRequestSort
    \/ handleChangePage
    \/ handleChangeRowsPerPage
    \/ handleSelectAllClick
    \/ handleSelectClick
    \/ handleActionMenuOpen
    \/ handleActionMenuClose
    \/ handleDeleteClick
    \/ handleDeleteConfirm
    \/ handleDeleteCancel
    \/ handleBulkDelete

RestCore ==
    RestFit /\ RestForecast /\ RestPage /\ RestSales /\ RestDates /\ RestRandom
    /\ RestPure /\ RestRetry /\ RestData

RestUi == RestDebounce /\ RestThrottle /\ RestApi /\ RestTransactions

RestOther == RestDates /\ RestRandom /\ RestPure /\ RestRetry /\ RestData /\ RestUi

InitOfDebounce ==
    RestCore /\ InitDebounce /\ RestThrottle /\ RestApi /\ RestTransactions

InitOfThrottle ==
    RestCore /\ InitThrottle /\ RestDebounce /\ RestApi /\ RestTransactions

InitOfApi ==
    RestCore /\ InitApi /\ RestDebounce /\ RestThrottle /\ RestTransactions

InitOfTransactions ==
    RestCore /\ InitTransactions /\ RestDebounce /\ RestThrottle /\ RestApi

\* the clock advances and due timeouts fire
SpecDebounce ==
    InitOfDebounce /\ [][NextDebounce]_vars
    /\ WF_vars(DebounceTick) /\ WF_vars(DebounceTimerFires)

SpecThrottle == InitOfThrottle /\ [][NextThrottle]_vars

\* every request is answered
SpecApi == InitOfApi /\ [][NextApi]_vars /\ WF_vars(NextApi)

SpecTransactions == InitOfTransactions /\ [][NextTransactions]_vars

InitOfData ==
    RestFit /\ RestForecast /\ RestPage /\ RestSales /\ RestDates /\ RestRandom
    /\ RestPure /\ RestRetry /\ InitData /\ RestUi

SpecData == InitOfData /\ [][NextData]_vars

InitOfRetry ==
    RestFit /\ RestForecast /\ RestPage /\ RestSales /\ RestDates /\ RestRandom
    /\ RestPure /\ InitRetry /\ RestData /\ RestUi

\* every call of requestFn settles and every timer fires
SpecRetry == InitOfRetry /\ [][NextRetry]_vars /\ WF_vars(NextRetry)

InitOfPure ==
    RestFit /\ RestForecast /\ RestPage /\ RestSales /\ RestDates /\ RestRandom
    /\ RestPure /\ RestRetry /\ RestData /\ RestUi

SpecPure == InitOfPure /\ [][NextPure]_vars

InitOfRandom == RestFit /\ RestForecast /\ RestPage /\ RestSales /\ RestDates /\ InitRandom
                  /\ RestPure /\ RestRetry /\ RestData /\ RestUi

SpecRandom == InitOfRandom /\ [][NextRandom]_vars

InitOfDates == RestFit /\ RestForecast /\ RestPage /\ RestSales /\ InitDates /\ RestRandom
                 /\ RestPure /\ RestRetry /\ RestData /\ RestUi

SpecDates == InitOfDates /\ [][NextDates]_vars

InitOfSales == RestFit /\ RestForecast /\ RestPage /\ InitSales /\ RestOther

SpecSales == InitOfSales /\ [][NextSales]_vars

InitOfFit == InitFit /\ RestForecast /\ RestPage /\ RestSales /\ RestOther

SpecFit == InitOfFit /\ [][NextFit]_vars

InitOfForecast == RestFit /\ InitForecast /\ RestPage /\ RestSales /\ RestOther

SpecForecast == InitOfForecast /\ [][NextForecast]_vars

Init == RestFit /\ RestForecast /\ InitPage /\ RestSales /\ RestOther

Next == NextPage

Spec == Init /\ [][Next]_vars

\* the timer that loadData of the Predictions page waits for fires
SpecLoading == Init /\ [][Next]_vars /\ WF_vars(LoadDataResolve)

----------------------------------------------------------------------------
(* Claims about linearRegression *)

Revenues(data) == [i \in 1..Len(data.items) |-> data.items[i].revenue]

\* the series is y_i = a*i + b for some a, b: constant first differences
IsLinearSeries(ys) ==
    \A i \in 2..Len(ys) : ys[i] - ys[i - 1] = ys[2] - ys[1]

\* C1: on a perfectly linear series y_i = a*i + b of two or more points the
\* fit returns slope = a and intercept = b.
C1_LinearSeriesRecovered ==
    LET ys == Revenues(fitData)
    IN  (fitPc = "returned" /\ fitData.present /\ Len(ys) >= 2 /\ IsLinearSeries(ys)) =>
            /\ fitResult.slope = RInt(ys[2] - ys[1])
            /\ fitResult.intercept = RInt(ys[1])

\* the series y = 3x + 7, x = 0..9, has been fitted
C1_Witness ==
    /\ fitPc = "returned"
    /\ fitData.present
    /\ Revenues(fitData) = [i \in 1..10 |-> 3 * (i - 1) + 7]
    /\ fitResult.slope = RInt(3)
    /\ fitResult.intercept = RInt(7)

\* C2: on an empty or missing series the fit returns slope 0 and
\* intercept 0 and performs no division.
C2_EmptyFitIsZero ==
    (fitPc = "returned" /\ (~fitData.present \/ Len(fitData.items) = 0)) =>
        /\ fitResult.slope = Zero
        /\ fitResult.intercept = Zero
        /\ fitResult.divisions = 0

\* an empty array has been fitted
C2_Witness ==
    /\ fitPc = "returned"
    /\ fitData.present
    /\ Len(fitData.items) = 0
    /\ fitResult = NoFit

----------------------------------------------------------------------------
(* Claims about generateForecast *)

Returned == fcPc = "returned" /\ Len(fcArgs.history) > 0
LastDate == parseISO(fcArgs.history[Len(fcArgs.history)].date)
Points == fcResult.forecast

\* C4: for a non-empty history and a known model the projector returns
\* exactly `months` points, each non-actual and tagged with the requested
\* model, the k-th lying k months (offset k = 1..months) after the history.
C4_ExactlyPeriodsPoints ==
    (Returned /\ fcArgs.modelId \in ModelIds) =>
        /\ fcResult.error = "none"
        /\ Len(Points) = fcArgs.months
        /\ \A k \in 1..Len(Points) :
            /\ Points[k].actual = FALSE
            /\ Points[k].model = fcArgs.modelId
            /\ MonthNumber(parseISO(Points[k].date)) = MonthNumber(LastDate) + k

\* a full-length forecast was returned for the exponential model
C4_Witness ==
    /\ Returned
    /\ fcArgs.modelId = "exponential"
    /\ fcArgs.months = MaxPeriods
    /\ Len(Points) = MaxPeriods
    /\ Points[MaxPeriods].actual = FALSE

\* C5: for parameters within the declared ranges every projected point
\* has lower95 <= revenue <= upper95.
C5_BandContainsValue ==
    (Returned /\ InRange(fcArgs.modelId, fcArgs.params)) =>
        \A k \in 1..Len(Points) :
            /\ RLeq(Points[k].lower95, Points[k].revenue)
            /\ RLeq(Points[k].revenue, Points[k].upper95)

\* the half-widths of the band of point k, on the returned (rounded) values
UpperWidth(k) == RSub(Points[k].upper95, Points[k].revenue)
LowerWidth(k) == RSub(Points[k].revenue, Points[k].lower95)

AllPositive == \A k \in 1..Len(Points) : RLess(Zero, Points[k].revenue)

Predicted(k) ==
    PredictedRevenue(fcArgs.history, fcArgs.modelId, fcArgs.months, fcArgs.params, k)

C7_MonthlyForecastDates ==
    /\ Returned =>
        \A k \in 1..Len(Points) :
            LET d == parseISO(Points[k].date)
                prev == IF k = 1 THEN LastDate ELSE parseISO(Points[k - 1].date)
            IN  /\ MonthNumber(d) = MonthNumber(LastDate) + k
                /\ d.date = IF LastDate.date <= DaysInMonth(d.year, d.month)
                            THEN LastDate.date
                            ELSE DaysInMonth(d.year, d.month)
                /\ DateLess(prev, d)
    /\ LET series == generateDateSeries([year |-> 2024, month |-> 0, date |-> 1],
                                        24, "month")
       IN  /\ Len(series) = 24
           /\ format(ForecastDate(series[24], 1)) = [yyyy |-> 2026, MM |-> 1, dd |-> 1]
           /\ format(ForecastDate(series[24], 12)) = [yyyy |-> 2026, MM |-> 12, dd |-> 1]

\* a history ending on 2024-12-31 was projected across February
C7_Witness ==
    /\ Returned
    /\ format(LastDate) = [yyyy |-> 2024, MM |-> 12, dd |-> 31]
    /\ Len(Points) >= 2
    /\ Points[2].date = [yyyy |-> 2025, MM |-> 2, dd |-> 28]
    /\ Points[2].actual = FALSE

\* C9 as stated, for a call asking for at least one period: an unknown
\* model identifier is refused with InvalidArgument and no forecast is
\* returned.
C9_UnknownModelRejected ==
    (Returned /\ fcArgs.months > 0 /\ fcArgs.modelId \notin ModelIds) =>
        /\ fcResult.error = "InvalidArgument"
        /\ fcResult.forecast = <<>>

----------------------------------------------------------------------------
(* Claims about the empty history *)

ZeroMetrics ==
    [totalRevenue |-> Zero, averageMonthlyRevenue |-> Zero, growthRate |-> Zero,
     confidenceLevel |-> Zero, divisions |-> 0, historyReads |-> 0]

\* C8: with an empty history the projector returns an empty sequence for
\* every model identifier, period count and parameter mapping, and the
\* page's forecast, comparative forecasts and summary metrics are empty or
\* zero, reached without a division or a read of the history;
\* generateForecastData returns an empty sequence as well.
C8_EmptyHistoryFallsBack ==
    (Len(historicalData) = 0) =>
        /\ \A m \in ModelIds \cup {UnknownModelId}, k \in 0..MaxPeriods :
             \A p \in {modelParams[selectedModelId]} \cup ParamChoices(m) \cup ForeignParams(m) :
                generateForecast(historicalData, m, k, p) = NoForecast
        /\ forecast = <<>>
        /\ DOMAIN comparativeForecasts = {}
        /\ metrics = ZeroMetrics
        /\ \A d \in 0..MaxPeriods : generateForecastData(historicalData, d) = <<>>

\* the page is mounted and loading, its history still empty, after the
\* user picked another model
C8_Witness ==
    /\ mounted
    /\ Len(historicalData) = 0
    /\ selectedModelId = "seasonal"
    /\ forecast = <<>>

----------------------------------------------------------------------------
(* Claims about generateSalesData *)

PointProduced == salesPc = "returned" /\ Len(salesDates) > 0

\* C10 as stated: every returned point has profit = revenue - costs on
\* its rounded fields.
C10_ProfitIsRevenueMinusCosts ==
    PointProduced => salesPoint.profit = salesPoint.revenue - salesPoint.costs

\* C11 as stated: every returned point has non-negative revenue, profit,
\* costs, transactions and marketingSpend.
C11_AllFieldsNonNegative ==
    PointProduced =>
        /\ salesPoint.revenue >= 0
        /\ salesPoint.profit >= 0
        /\ salesPoint.costs >= 0
        /\ salesPoint.transactions >= 0
        /\ salesPoint.marketingSpend >= 0

----------------------------------------------------------------------------
(* Claims about generateDateSeries *)

\* days since a fixed origin, by the civil calendar
DayNumber(date) ==
    LET before == <<0, 31, 59, 90, 120, 151, 181, 212, 243, 273, 304, 334>>
        y == date.year - 1
        leapDay == IF date.month > 1 /\ IsLeapYear(date.year) THEN 1 ELSE 0
    IN  365 * y + (y \div 4) - (y \div 100) + (y \div 400)
        + before[date.month + 1] + leapDay + date.date

DatesReturned == dsPc = "returned" /\ dsResult.error = "none"
Dates == dsResult.dates

\* C12: for a count >= 0 the call returns exactly `count` dates, the first
\* equal to the start, strictly increasing, consecutive dates 1 day apart
\* for interval day and 7 days apart for interval week; the caller's start
\* date is not modified.
C12_SeriesShape ==
    (dsPc = "returned" /\ dsArgs.days >= 0) =>
        /\ dsResult.error = "none"
        /\ Len(Dates) = dsArgs.days
        /\ dsArgs.days > 0 => Dates[1] = dsArgs.startDate
        /\ \A k \in 1..(Len(Dates) - 1) :
            /\ DateLess(Dates[k], Dates[k + 1])
            /\ dsArgs.interval = "day" => DayNumber(Dates[k + 1]) = DayNumber(Dates[k]) + 1
            /\ dsArgs.interval = "week" => DayNumber(Dates[k + 1]) = DayNumber(Dates[k]) + 7
        /\ dsStartDate = dsArgs.startDate

\* a weekly series that crosses the end of a year
C12_Witness ==
    /\ DatesReturned
    /\ dsArgs.interval = "week"
    /\ Len(Dates) >= 3
    /\ Dates[1].year = 2023
    /\ Dates[Len(Dates)].year = 2024

\* C13 as stated: with interval month every date lies in the calendar
\* month after its predecessor's, none skipped or repeated.
C13_MonthlySeriesConsecutive ==
    (DatesReturned /\ dsArgs.interval = "month") =>
        \A k \in 1..(Len(Dates) - 1) :
            MonthNumber(Dates[k + 1]) = MonthNumber(Dates[k]) + 1

\* C14 as stated: a negative count is rejected with InvalidArgument.
C14_NegativeCountRejected ==
    (dsPc = "returned" /\ dsArgs.days < 0) => dsResult.error = "InvalidArgument"

----------------------------------------------------------------------------
(* Claims about randomBetween and randomFromArray *)

\* C15 as stated: for integers min <= max and every value of Math.random()
\* in [0, 1), randomBetween returns an integer r with min <= r <= max.
C15_ResultWithinBounds ==
    (rndPc = "returned" /\ rndCall.fn = "randomBetween") =>
        /\ rndCall.min <= rndResult.value
        /\ rndResult.value <= rndCall.max

\* C16 as stated: randomFromArray fails with InvalidArgument on an empty
\* array and returns one of the array's elements otherwise.
C16_EmptyArrayRejected ==
    (rndPc = "returned" /\ rndCall.fn = "randomFromArray") =>
        IF Len(rndCall.array) = 0
        THEN rndResult.error = "InvalidArgument"
        ELSE /\ rndResult.error = "none"
             /\ \E k \in 1..Len(rndCall.array) : rndResult.value = rndCall.array[k]

----------------------------------------------------------------------------
(* Claims about the purity of linearRegression and generateForecast *)

----------------------------------------------------------------------------
(* Claims about retryRequest *)

RetrySettled == retryPc \in {"resolved", "rejected"}

AllFailed(calls) == \A k \in 1..Len(calls) : ~calls[k].ok

RetryBounded ==
    /\ Len(retryCalls) <= retryArgs.maxRetries + 1
    /\ Len(retryDelays) <= retryArgs.maxRetries
    /\ \A k \in 1..Len(retryDelays) :
        retryDelays[k] = retryArgs.initialDelay * 2^(k - 1)
    /\ retryPc = "resolved" =>
        /\ retryCalls[Len(retryCalls)].ok
        /\ AllFailed(SubSeq(retryCalls, 1, Len(retryCalls) - 1))
        /\ retryResult = [status |-> "resolved", value |-> retryCalls[Len(retryCalls)].id]
    /\ retryPc = "rejected" =>
        /\ AllFailed(retryCalls)
        /\ Len(retryCalls) = retryArgs.maxRetries + 1
        /\ retryResult = [status |-> "rejected", value |-> retryCalls[Len(retryCalls)].id]
    /\ ~RetrySettled => retryResult.status = "pending"

\* C18: requestFn is called at most maxRetries + 1 times; the promise
\* resolves with the first successful call's value, with no call after it, and
\* rejects with the last call's error once maxRetries + 1 calls have failed;
\* the k-th retry is preceded by a wait of initialDelay * 2^(k-1); the
\* promise always settles.
C18_RetryBoundedAndSettles == []RetryBounded /\ <>RetrySettled

\* every call failed, with three waits in between
C18_Witness ==
    /\ retryPc = "rejected"
    /\ retryArgs = [maxRetries |-> 3, initialDelay |-> 1000]
    /\ retryDelays = <<1000, 2000, 4000>>
    /\ Len(retryCalls) = 4

----------------------------------------------------------------------------
(* Claims about useData *)

\* C19 as stated: isLoading is true exactly when some fetch is in flight.
C19_LoadingIffInFlight ==
    udIsLoading <=> \E f \in 1..Len(udFetches) : InFlight(f)

FetchStarts == Len(udFetches') = Len(udFetches) + 1

FetchFails(f) == InFlight(f) /\ udFetches'[f].status = "rejected"

\* what C20 asks of one step of the hook
FailureHandled ==
    /\ FetchStarts => udError' = Null
    /\ \A f \in 1..Len(udFetches) :
        FetchFails(f) =>
            /\ udError' = udFetches'[f].settled.message
            /\ udCallbacks' = Append(udCallbacks, [callback |-> "onError",
                                                   arg |-> udFetches'[f].settled])
            /\ udFetches'[f].result = Undefined
            /\ udData' = udData
            /\ udLastFetchedAt' = udLastFetchedAt
            /\ udIsLoading' = FALSE

\* C20: starting a fetch clears the error; a failing fetch sets error to
\* errorTransform(err) (the error's message, by default), invokes onError
\* with the error, resolves to undefined, leaves data and lastFetchedAt as
\* they were and sets isLoading to false.
C20_FailureHandling == [][FailureHandled]_vars

\* a fetch failed after an earlier one had loaded data, and a new fetch then
\* cleared the error
C20_Witness ==
    /\ Len(udFetches) = 3
    /\ udFetches[1].status = "resolved"
    /\ udFetches[2].status = "rejected"
    /\ udFetches[3].status = "inflight"
    /\ udData = udFetches[1].result
    /\ udError = Null
    /\ Len(udCallbacks) = 2
    /\ udCallbacks[2].callback = "onError"

----------------------------------------------------------------------------
(* Claims about the linear model *)

\* the quarter factor the linear model is said to apply
QuarterFactor(monthIndex) ==
    IF monthIndex >= 9 THEN Frac(13, 10)
    ELSE IF monthIndex <= 2 THEN Frac(85, 100)
    ELSE IF monthIndex >= 6 THEN Frac(11, 10)
    ELSE RInt(1)

\* intercept + slope * x for the k-th projected point
BaseValue(k) ==
    LET fit == linearRegression(Given(fcArgs.history))
    IN  RAdd(fit.intercept, RMul(fit.slope, RInt(Len(fcArgs.history) - 1 + k)))

\* C23 as stated: in the linear model every projected value is the base
\* value times the quarter factor of its target month, times seasonality,
\* times growth, for every target month.
C23_LinearValueFormula ==
    (Returned /\ fcArgs.modelId = "linear" /\ InRange("linear", fcArgs.params)) =>
        \A k \in 1..Len(Points) :
            Points[k].revenue =
                RRound(RMul(RMul(RMul(BaseValue(k),
                                      QuarterFactor(parseISO(Points[k].date).month)),
                                 fcArgs.params.seasonality),
                            fcArgs.params.growth))

----------------------------------------------------------------------------
(* Claims about useDebounce *)

PublishedAfterFullDelay ==
    \A k \in 1..Len(dbPublications) :
        /\ dbPublications[k].value = dbPublications[k].input
        /\ dbPublications[k].heldFor >= dbDelay

\* C21: every value the hook publishes is the current input and has been
\* the input, unchanged, for at least the delay; and if the input stays at
\* some value for good, the debounced value is eventually that value for
\* good.
C21_DebouncePublishesSettledValue ==
    /\ []PublishedAfterFullDelay
    /\ \A value \in DebounceInputs :
        <>[](dbValue = value) => <>[](dbDebounced = value)

\* a value was replaced before its delay had passed and was not published;
\* the value that replaced it was, after the full delay
C21_Witness ==
    /\ dbChanges = 2
    /\ dbDelay = 3
    /\ Len(dbPublications) = 1
    /\ dbPublications[1].value = dbValue
    /\ dbDebounced = dbValue
    /\ dbTimers = {}

----------------------------------------------------------------------------
(* Claims about useThrottle *)

\* C22: any two successive invocations of the wrapped callback are at least
\* the delay apart.
C22_InvocationsDelayApart ==
    \A k \in 2..Len(thInvocations) :
        thInvocations[k].at - thInvocations[k - 1].at >= thDelay

----------------------------------------------------------------------------
(* Claims about the API client *)

\* C24: handling one failed request posts at most one token refresh, also
\* when the refresh endpoint answers 401.
C24_AtMostOneRefresh == apiRefreshCalls <= 1

----------------------------------------------------------------------------
(* Claims about the Transactions page *)

\* C25: once the delete dialog, reached through the action menu of a row and
\* its Delete item, has been confirmed, that row's transaction is no longer
\* in the list nor in the selection.
C25_ConfirmedDeleteRemovesRow ==
    txLastHandler = "handleDeleteConfirm" =>
        /\ txMenuRow \cap txTransactions = {}
        /\ txMenuRow \cap txSelected = {}

\* C26: the page index addresses an existing page: the displayed slice is
\* non-empty whenever the filtered list is non-empty.
C26_PageShowsRows ==
    filteredTransactions # {} => paginatedTransactions # <<>>

----------------------------------------------------------------------------
(* Claims about the loading flag of the data pages *)

\* C27: whenever isLoading of the Predictions page is true, through mount or
\* through the Refresh Data button, it is eventually false again.
C27_LoadingEnds == isLoading ~> ~isLoading

============================================================================
